---- MODULE Spec2Model ----
(***************************************************************************)
(* photo_critic: the batch lifecycle (construct client, submit, poll,      *)
(* retrieve results) of src/photo_critic/batch.py and its orchestration by *)
(* the command line entry point src/photo_critic/cli.py.                   *)
(*                                                                         *)
(* Two callers drive the same operations:                                  *)
(*   mode = "cli": main() of cli.py from its submission phase on;          *)
(*   mode = "api": a program that constructs a client, submits, and later  *)
(*                 resumes from the batch id through the module-level      *)
(*                 poll_batch / get_batch_results, which construct a       *)
(*                 fresh client for each call.                             *)
(* The remote batch service, the clock, transport failures and the user's  *)
(* interrupt are the environment and are chosen nondeterministically.      *)
(***************************************************************************)
EXTENDS Integers, Sequences, FiniteSets, TLC

VARIABLES
    mode,           \* "cli" | "api"
    n,              \* number of batch requests handed to submit_batch
    client,         \* the caller's BatchClient object, None before construction
    construct_err,  \* error raised by BatchClient(...), None if none raised
    sub_outcome,    \* outcome of submit_batch
    batch_id,       \* value returned by submit_batch
    temp_written,   \* a temporary .jsonl file was created
    temp_left,      \* a temporary file is still on disk after submit_batch
    uploaded,       \* client.files.create succeeded
    remote_status,  \* native status of the remote batch, "none" if not created
    remote_errs,    \* custom ids the service reports in its error file
    now,            \* the clock (time.time())
    poll_pc,        \* position in poll_batch: idle | check | fetch | sleep | done
    poll_self,      \* the client object poll_batch runs on
    poll_batch_id,  \* poll_batch argument
    poll_interval,  \* poll_batch argument
    timeout,        \* poll_batch argument
    start_time,     \* poll_batch local
    last_log_time,  \* poll_batch local
    progress_log,   \* times at which this poll_batch call logged a progress summary
    status,         \* poll_batch local: the status of the last fetch
    poll_outcome,   \* how poll_batch ended
    poll_result,    \* value returned by poll_batch
    poll_err,       \* exception raised by poll_batch
    res_self,       \* the client object get_batch_results ran on
    res_status,     \* get_batch_results local: the status it fetched
    res_outcome,    \* how get_batch_results ended
    results,        \* value returned by get_batch_results
    content_read,   \* client.files.content was called
    cli_pc,         \* position in main()
    exit_code,      \* sys.exit code, None while running
    shown,          \* batch ids printed on the console, in order
    cli_end,        \* how main() ended, "running" until then
    written,        \* report files generate_report wrote in this run, by suffix
    announced       \* report files the completion message names as saved

\* prepare_batch (prepare.py)
VARIABLES
    images,         \* prepare_batch argument: the list of image paths
    prep_provider,  \* prepare_batch argument
    prep_model,     \* prepare_batch argument
    prep_pc,        \* position in prepare_batch: idle | loop | done
    prep_pos,       \* number of entries of images the loop has consumed
    batch_requests, \* prepare_batch local, then its first return value
    image_metadata, \* prepare_batch local, then its second return value
    prep_outcome    \* how prepare_batch ended

prepVars ==
    << images, prep_provider, prep_model, prep_pc, prep_pos, batch_requests,
       image_metadata, prep_outcome >>

\* merge_results, filter_by_score, calculate_statistics (report.py)
VARIABLES
    rep_pc,         \* idle | merged | filtered | stats
    batch_results,  \* merge_results argument: the raw results
    rep_metadata,   \* merge_results argument: the image metadata
    merge_outcome,  \* how merge_results ended
    merged,         \* value returned by merge_results
    min_score,      \* filter_by_score argument
    filtered,       \* value returned by filter_by_score
    stats_outcome,  \* how calculate_statistics ended
    stats           \* value returned by calculate_statistics

reportVars ==
    << rep_pc, batch_results, rep_metadata, merge_outcome, merged, min_score,
       filtered, stats_outcome, stats >>

\* generate_report (report.py)
VARIABLES
    gen_pc,         \* idle | done
    gen_args,       \* the arguments of the generate_report call
    gen             \* what the generate_report call did

genVars == << gen_pc, gen_args, gen >>

\* the variables of the functions that run without the batch service
libVars == << prepVars, reportVars, genVars >>

batchVars ==
    << mode, n, client, construct_err, sub_outcome, batch_id, temp_written,
       temp_left, uploaded, remote_status, remote_errs, now, poll_pc, poll_self,
       poll_batch_id, poll_interval, timeout, start_time, last_log_time,
       progress_log, status,
       poll_outcome, poll_result, poll_err, res_self,
       res_status, res_outcome, results, content_read, cli_pc, exit_code, shown,
       cli_end, written, announced >>

vars == << batchVars, libVars >>

submitVars ==
    << sub_outcome, batch_id, temp_written, temp_left, uploaded >>

pollVars ==
    << poll_pc, poll_self, poll_batch_id, poll_interval, timeout, start_time,
       last_log_time, progress_log, status, poll_outcome, poll_result, poll_err >>

resVars ==
    << res_self, res_status, res_outcome, results, content_read >>

cliVars ==
    << cli_pc, exit_code, shown, cli_end, written, announced >>

----------------------------------------------------------------------------
(* Bounds of the model *)

\* request lists of length 0..MaxReq are enumerated item by item
MaxReq == 2

\* the clock moves in steps of TimeUnit seconds
TimeUnit == 150

\* the largest timeout tried, in clock steps
MaxTicks == 4

(* Program constants *)

\* "max 10,000 per batch"
MAX_BATCH == 10000

\* "Log progress periodically (every 5 minutes)"
LOG_INTERVAL == 300

None == "None"

\* None where an object (a record) is expected
NoObj == [none |-> TRUE]

Min(a, b) == IF a < b THEN a ELSE b

Max(a, b) == IF a < b THEN b ELSE a

\* the last clock reading of the model; later than every deadline tried
MaxTime == (MaxTicks + 2) * TimeUnit

\* the clock after d more seconds
Advance(t, d) == Min(t + d, MaxTime)

ClockSteps == {0, TimeUnit}

\* the timeouts and poll intervals a program using the library passes
Timeouts == {0, MaxTicks * TimeUnit}

PollIntervals == {0, 2 * TimeUnit}

\* main() polls with poll_interval=30 and the default timeout of 86400 s; on
\* the model's clock these are one clock step and the largest timeout
CliPollInterval == TimeUnit

DefaultTimeout == MaxTicks * TimeUnit

RequestCounts == (0..MaxReq) \cup {MAX_BATCH + 1}

\* main() caps the images at --max-images (100 unless the user raises it)
CliRequestCounts == 0..MaxReq

BatchIds == {"batch_a", "batch_b"}

Providers == {"openai", "OpenAI", "anthropic", "Anthropic", "gemini"}

\* values of the OPENAI_API_KEY environment variable
EnvKeys == {None, "", "sk-key"}

\* the request list: item i carries the correlation id i
requests == [i \in 1..n |-> [custom_id |-> i]]

----------------------------------------------------------------------------
(* Client construction *)

\* a comparison of the provider name as given, letter case and all
LowerOmitted(s) == s

\* str.lower() on the provider names tried
Lower(s) ==
    CASE s = "OpenAI" -> "openai"
      [] s = "Anthropic" -> "anthropic"
      [] OTHER -> s

\* OpenAIBatchClient.__init__
OpenAIBatchClientInit(api_key, env_key) ==
    LET key == IF api_key = None THEN env_key ELSE api_key
    IN  IF key = None \/ key = ""
        THEN [error |-> [type |-> "ValueError", message |-> "API key required",
                         value |-> None],
              self |-> NoObj]
        ELSE [error |-> NoObj,
              self |-> [client |-> key,
                        endpoint |-> "/v1/chat/completions",
                        completion_window |-> "24h"]]

\* BatchClient.__init__
BatchClientInit(provider, api_key, env_key) ==
    LET provider_normalized == Lower(provider)
        inner == OpenAIBatchClientInit(api_key, env_key)
    IN  CASE provider_normalized = "anthropic" ->
               [error |-> [type |-> "NotImplementedError",
                           message |-> "Anthropic provider is disabled",
                           value |-> None],
                self |-> NoObj]
          [] provider_normalized = "openai" ->
               IF inner.error # NoObj
               THEN [error |-> inner.error, self |-> NoObj]
               ELSE [error |-> NoObj,
                     self |-> [client |-> inner.self,
                               provider |-> provider_normalized]]
          [] OTHER ->
               [error |-> [type |-> "ValueError",
                           message |-> "Unsupported provider",
                           value |-> provider],
                self |-> NoObj]

----------------------------------------------------------------------------
(* submit_batch *)

\* submit_batch with the emptiness test on None instead of on the length
IsEmptyBatchNoneOnly(reqs) == Len(reqs) < 0

\* "if not requests"
IsEmptyBatch(reqs) == Len(reqs) = 0

\* submit_batch remembering the batch it created on the client object
SelfAfterSubmitCaching(self, id) ==
    [client |-> self.client, provider |-> self.provider, last_batch_id |-> id]

\* the client object after submit_batch ran on it: no attribute is assigned
SelfAfterSubmit(self, id) == self

\* OpenAIBatchClient.submit_batch: what it leaves behind and how it ends.
\* fail names the call that raises ("none": no call raises), id is the id the
\* service gives the batch, unlink_ok whether os.unlink succeeds.
SubmitBatch(reqs, fail, id, unlink_ok) ==
    IF IsEmptyBatch(reqs)
    THEN [outcome |-> "empty_batch", id |-> None, temp_written |-> FALSE,
          temp_left |-> FALSE, uploaded |-> FALSE, created |-> FALSE]
    ELSE CASE fail = "write" ->
                \* temp_path is still None: the finally clause removes nothing
                [outcome |-> "failed", id |-> None, temp_written |-> TRUE,
                 temp_left |-> TRUE, uploaded |-> FALSE, created |-> FALSE]
           [] fail = "upload" ->
                [outcome |-> "failed", id |-> None, temp_written |-> TRUE,
                 temp_left |-> ~unlink_ok, uploaded |-> FALSE, created |-> FALSE]
           [] fail = "create" ->
                [outcome |-> "failed", id |-> None, temp_written |-> TRUE,
                 temp_left |-> ~unlink_ok, uploaded |-> TRUE, created |-> FALSE]
           [] OTHER ->
                [outcome |-> "returned", id |-> id, temp_written |-> TRUE,
                 temp_left |-> ~unlink_ok, uploaded |-> TRUE, created |-> TRUE]

SubmitFailures == {"none", "write", "upload", "create"}

\* the state change of one submit_batch call on the client object self
DoSubmit(self, fail, id, unlink_ok, d) ==
    LET r == SubmitBatch(requests, fail, id, unlink_ok)
    IN  /\ sub_outcome' = r.outcome
        /\ batch_id' = r.id
        /\ temp_written' = r.temp_written
        /\ temp_left' = r.temp_left
        /\ uploaded' = r.uploaded
        /\ remote_status' = IF r.created THEN "validating" ELSE remote_status
        /\ now' = Advance(now, d)

----------------------------------------------------------------------------
(* The remote batch service *)

\* native statuses a status fetch can report
NativeStatuses ==
    {"validating", "in_progress", "finalizing", "completed", "failed",
     "expired", "cancelling", "canceled"}

\* the service's own lifecycle
NextNative(s) ==
    CASE s = "validating" -> {"in_progress", "failed"}
      [] s = "in_progress" -> {"finalizing", "expired", "cancelling"}
      [] s = "finalizing" -> {"completed"}
      [] s = "cancelling" -> {"canceled"}
      [] OTHER -> {}

\* the service moves the batch on; on completion it decides which requests
\* are reported in the error file instead of the output file
RemoteAdvance ==
    /\ remote_status \in NativeStatuses
    /\ \E s \in NextNative(remote_status) :
          /\ remote_status' = s
          /\ IF s = "completed"
             THEN \E errs \in SUBSET (1..Min(n, MaxReq)) : remote_errs' = errs
             ELSE UNCHANGED remote_errs
    /\ UNCHANGED << libVars, mode, n, client, construct_err, submitVars, now, pollVars,
                    resVars, cliVars >>

\* custom ids of the output file's lines, in submission order
OutputIds == SelectSeq([i \in 1..n |-> i], LAMBDA i : i \notin remote_errs)

\* the batch object client.batches.retrieve returns
RemoteBatch(bid) ==
    [id |-> bid,
     status |-> remote_status,
     request_counts |->
        IF remote_status = "completed"
        THEN [total |-> n, completed |-> n - Cardinality(remote_errs),
              failed |-> Cardinality(remote_errs)]
        ELSE [total |-> n, completed |-> 0, failed |-> 0],
     output_file_id |->
        IF remote_status = "completed" /\ n - Cardinality(remote_errs) > 0
        THEN "file-output" ELSE None,
     error_file_id |->
        IF remote_status = "completed" /\ remote_errs # {}
        THEN "file-error" ELSE None]

----------------------------------------------------------------------------
(* get_batch_status *)

\* the normalisation with the wrong native status taken for the final one
ProcessingStatusFinalizing(native) ==
    IF native = "finalizing" THEN "ended" ELSE "in_progress"

\* a normalisation that reports every terminal native status as ended
ProcessingStatusTerminal(native) ==
    IF native \in {"completed", "failed", "expired", "canceled"}
    THEN "ended" ELSE "in_progress"

\* the normalised processing status of a native status
ProcessingStatus(native) ==
    IF native = "completed" THEN "ended" ELSE "in_progress"

\* OpenAIBatchClient.get_batch_status, given the batch object retrieved
GetBatchStatus(self, batch) ==
    LET counts == batch.request_counts
        processing == Max(counts.total - counts.completed - counts.failed, 0)
    IN  [id |-> batch.id,
         processing_status |-> ProcessingStatus(batch.status),
         provider_status |-> batch.status,
         request_counts |->
            [processing |-> processing, succeeded |-> counts.completed,
             errored |-> counts.failed, canceled |-> 0, expired |-> 0],
         output_file_id |-> batch.output_file_id,
         error_file_id |-> batch.error_file_id]

----------------------------------------------------------------------------
(* poll_batch *)

\* the timeout test with the elapsed time negated (start minus now)
TimedOutNegated(elapsed, limit) == (0 - elapsed) > limit

\* the timeout test with >= for >
TimedOutInclusive(elapsed, limit) == elapsed >= limit

\* a timeout test that never holds
TimedOutNever(elapsed, limit) == FALSE

\* "if elapsed > timeout"
TimedOut(elapsed, limit) == elapsed > limit

\* "if provider_status == 'completed'"
IsCompleted(provider_status) == provider_status = "completed"

\* the failure test without the canceled status
IsFailedWithoutCanceled(provider_status) ==
    provider_status \in {"failed", "expired"}

\* "if provider_status in {'failed', 'expired', 'canceled'}"
IsFailed(provider_status) ==
    provider_status \in {"failed", "expired", "canceled"}

\* a log test that holds at every poll
LogDueEveryPoll(t, last) == t - last >= 0

\* "if time.time() - last_log_time >= 300"
LogDue(t, last) == t - last >= LOG_INTERVAL

\* the exception of the timeout branch
TimeoutError(bid, limit) ==
    [kind |-> "TimeoutError", batch_id |-> bid, timeout |-> limit]

\* the exception of the failed branch
BatchFailedError(provider_status) ==
    [kind |-> "Exception", provider_status |-> provider_status]

\* the exception a failing status fetch propagates
StatusFetchError == [kind |-> "StatusFetchError"]

\* the runs whose request list is longer than MaxReq are followed up to the
\* return of submit_batch
Enumerated == n <= MaxReq

\* poll_batch is entered: start_time and last_log_time are read off the clock
PollStart(self, bid, interval, limit) ==
    /\ poll_pc = "idle"
    /\ Enumerated
    /\ poll_pc' = "check"
    /\ poll_self' = self
    /\ poll_batch_id' = bid
    /\ poll_interval' = interval
    /\ timeout' = limit
    /\ start_time' = now
    /\ last_log_time' = now
    /\ progress_log' = << >>
    /\ UNCHANGED << status, poll_outcome, poll_result, poll_err >>

\* top of the loop: the timeout check
PollCheck ==
    /\ poll_pc = "check"
    /\ \E d \in ClockSteps :
          LET t == Advance(now, d)
              elapsed == t - start_time
          IN  /\ now' = t
              /\ IF TimedOut(elapsed, timeout)
                 THEN /\ poll_pc' = "done"
                      /\ poll_outcome' = "timeout"
                      /\ poll_err' = TimeoutError(poll_batch_id, timeout)
                 ELSE /\ poll_pc' = "fetch"
                      /\ UNCHANGED << poll_outcome, poll_err >>
    /\ UNCHANGED << libVars, mode, n, client, construct_err, submitVars, remote_status,
                    remote_errs, poll_self, poll_batch_id, poll_interval,
                    timeout, start_time, last_log_time, progress_log, status,
                    poll_result, resVars, cliVars >>

\* the status fetch, the periodic progress log (the clock is read once for
\* the test and once more for last_log_time; the summary is logged between
\* the two readings) and the classification of the fetched status
PollFetch ==
    /\ poll_pc = "fetch"
    /\ \E fetch_ok \in BOOLEAN, d \in ClockSteps :
          IF ~fetch_ok
          THEN /\ poll_pc' = "done"
               /\ poll_outcome' = "fetch_error"
               /\ poll_err' = StatusFetchError
               /\ UNCHANGED << now, last_log_time, progress_log, status,
                               poll_result >>
          ELSE LET st == GetBatchStatus(poll_self, RemoteBatch(poll_batch_id))
                   t == Advance(now, d)
               IN  /\ status' = st
                   /\ IF LogDue(t, last_log_time)
                      THEN \E d2 \in ClockSteps :
                            \E logged \in {t, Advance(t, d2)} :
                              /\ progress_log' = Append(progress_log, logged)
                              /\ last_log_time' = Advance(t, d2)
                              /\ now' = Advance(t, d2)
                      ELSE /\ now' = t
                           /\ UNCHANGED << last_log_time, progress_log >>
                   /\ CASE IsCompleted(st.provider_status) ->
                             /\ poll_pc' = "done"
                             /\ poll_outcome' = "returned"
                             /\ poll_result' = st
                             /\ UNCHANGED poll_err
                        [] IsFailed(st.provider_status) ->
                             /\ poll_pc' = "done"
                             /\ poll_outcome' = "failed"
                             /\ poll_err' = BatchFailedError(st.provider_status)
                             /\ UNCHANGED poll_result
                        [] OTHER ->
                             /\ poll_pc' = "sleep"
                             /\ UNCHANGED << poll_outcome, poll_result, poll_err >>
    /\ UNCHANGED << libVars, mode, n, client, construct_err, submitVars, remote_status,
                    remote_errs, poll_self, poll_batch_id, poll_interval,
                    timeout, start_time, resVars, cliVars >>

\* poll_batch has returned or raised and its caller goes on: the arguments and
\* locals of the call are gone, what it returned or raised stays
PollFrameDropped ==
    /\ poll_pc' = "done"
    /\ poll_interval' = 0
    /\ timeout' = 0
    /\ start_time' = 0
    /\ last_log_time' = 0
    /\ progress_log' = << >>
    /\ status' = NoObj
    /\ UNCHANGED << poll_self, poll_batch_id, poll_outcome, poll_result,
                    poll_err >>

\* time.sleep(poll_interval)
PollSleep ==
    /\ poll_pc = "sleep"
    /\ \E d \in ClockSteps : now' = Advance(now, poll_interval + d)
    /\ poll_pc' = "check"
    /\ UNCHANGED << libVars, mode, n, client, construct_err, submitVars, remote_status,
                    remote_errs, poll_self, poll_batch_id, poll_interval,
                    timeout, start_time, last_log_time, progress_log, status,
                    poll_outcome,
                    poll_result, poll_err, resVars, cliVars >>

\* the user interrupts the process while poll_batch runs (KeyboardInterrupt)
Interrupt ==
    /\ poll_pc \in {"check", "fetch", "sleep"}
    /\ poll_pc' = "done"
    /\ poll_outcome' = "interrupted"
    /\ poll_err' = [kind |-> "KeyboardInterrupt"]
    /\ UNCHANGED << libVars, mode, n, client, construct_err, submitVars, remote_status,
                    remote_errs, now, poll_self, poll_batch_id, poll_interval,
                    timeout, start_time, last_log_time, progress_log, status,
                    poll_result, resVars, cliVars >>

----------------------------------------------------------------------------
(* get_batch_results *)

\* what one line of the output file can hold for a request
LineKinds == {"ok", "notext", "http_error"}

\* the kind of the line of request i: the requests beyond MaxReq all succeed
KindOf(kinds, i) == IF i \in DOMAIN kinds THEN kinds[i] ELSE "ok"

Reverse(s) == [i \in 1..Len(s) |-> s[Len(s) + 1 - i]]

\* the decoded output file: one record per line, in the service's order,
\* blank lines as NoObj
OutputLines(kinds, reversed, blank) ==
    LET ids == IF reversed THEN Reverse(OutputIds) ELSE OutputIds
        lines == [j \in 1..Len(ids) |->
                    LET k == KindOf(kinds, ids[j])
                    IN  [custom_id |-> ids[j],
                         status_code |-> IF k = "http_error" THEN 400 ELSE 200,
                         text |-> IF k = "ok" THEN "critique" ELSE None]]
    IN  IF blank THEN Append(lines, NoObj) ELSE lines

\* "if not line.strip(): continue"
NonBlank(lines) == SelectSeq(lines, LAMBDA l : l # NoObj)

\* the result built from one output record
ResultOfRecord(record) ==
    IF record.status_code = 200
    THEN [custom_id |-> record.custom_id,
          result |-> [type |-> IF record.text # None THEN "succeeded"
                                                      ELSE "errored",
                      text |-> IF record.text # None THEN record.text ELSE ""]]
    ELSE [custom_id |-> record.custom_id,
          result |-> [type |-> "errored", text |-> None]]

\* the readiness test letting a finalizing batch through
ResultsNotReadyLax(st) == st.provider_status \notin {"completed", "finalizing"}

\* "if status.get('provider_status') != 'completed'"
ResultsNotReady(st) == st.provider_status # "completed"

\* OpenAIBatchClient.get_batch_results: fetch_ok and content_ok say whether
\* the status fetch and the file download succeed, lines is the output file
GetBatchResults(self, batch, fetch_ok, content_ok, lines) ==
    IF ~fetch_ok
    THEN [outcome |-> "fetch_error", status |-> NoObj, results |-> << >>,
          content_read |-> FALSE]
    ELSE LET st == GetBatchStatus(self, batch)
         IN  CASE ResultsNotReady(st) ->
                    [outcome |-> "not_ready", status |-> st, results |-> << >>,
                     content_read |-> FALSE]
               [] st.output_file_id = None ->
                    [outcome |-> "no_output_file", status |-> st,
                     results |-> << >>, content_read |-> FALSE]
               [] ~content_ok ->
                    [outcome |-> "content_error", status |-> st,
                     results |-> << >>, content_read |-> TRUE]
               [] OTHER ->
                    LET kept == NonBlank(lines)
                    IN  [outcome |-> "returned", status |-> st,
                         results |-> [j \in 1..Len(kept) |->
                                        ResultOfRecord(kept[j])],
                         content_read |-> TRUE]

\* the state change of one get_batch_results call on the client object self
DoResults(self, bid) ==
    \E fetch_ok \in BOOLEAN, content_ok \in BOOLEAN, reversed \in BOOLEAN,
       blank \in BOOLEAN, kinds \in [1..Min(n, MaxReq) -> LineKinds] :
        LET r == GetBatchResults(self, RemoteBatch(bid), fetch_ok, content_ok,
                                 OutputLines(kinds, reversed, blank))
        IN  /\ res_self' = self
            /\ res_status' = r.status
            /\ res_outcome' = r.outcome
            /\ results' = r.results
            /\ content_read' = r.content_read

----------------------------------------------------------------------------
(* The library used directly: mode = "api" *)

\* a client constructed anew with the credentials of the submitting client, as
\* the module-level poll_batch and get_batch_results do
FreshClient(key) == BatchClientInit("openai", key, None).self

ApiKeys == {None, "sk-arg"}

\* BatchClient(provider, api_key)
ApiConstruct ==
    /\ mode = "api"
    /\ client = NoObj
    /\ construct_err = NoObj
    /\ \E provider \in Providers, api_key \in ApiKeys, env_key \in EnvKeys :
          LET c == BatchClientInit(provider, api_key, env_key)
          IN  /\ client' = c.self
              /\ construct_err' = c.error
    /\ UNCHANGED << libVars, mode, n, submitVars, remote_status, remote_errs, now,
                    pollVars, resVars, cliVars >>

\* client.submit_batch(requests)
ApiSubmit ==
    /\ mode = "api"
    /\ client # NoObj
    /\ sub_outcome = "none"
    /\ \E fail \in SubmitFailures, id \in BatchIds, unlink_ok \in BOOLEAN,
          d \in ClockSteps :
          /\ DoSubmit(client, fail, id, unlink_ok, d)
          /\ client' = SelfAfterSubmit(client, id)
    /\ UNCHANGED << libVars, mode, n, construct_err, remote_errs, pollVars, resVars,
                    cliVars >>

\* the module-level poll_batch(batch_id, api_key, poll_interval, timeout)
ApiPoll ==
    /\ mode = "api"
    /\ sub_outcome = "returned"
    /\ res_outcome = "none"
    /\ \E interval \in PollIntervals, limit \in Timeouts :
          PollStart(FreshClient(client.client.client), batch_id, interval, limit)
    /\ UNCHANGED << libVars, mode, n, client, construct_err, submitVars, remote_status,
                    remote_errs, now, resVars, cliVars >>

\* the module-level get_batch_results(batch_id, api_key)
ApiGetResults ==
    /\ mode = "api"
    /\ sub_outcome = "returned"
    /\ Enumerated
    /\ res_outcome = "none"
    /\ \/ poll_pc = "idle" /\ UNCHANGED pollVars
       \/ poll_pc = "done" /\ poll_outcome = "returned" /\ PollFrameDropped
    /\ DoResults(FreshClient(client.client.client), batch_id)
    /\ UNCHANGED << libVars, mode, n, client, construct_err, submitVars, remote_status,
                    remote_errs, now, cliVars >>

----------------------------------------------------------------------------
(* main() of cli.py: mode = "cli" *)

Running == -1

\* a handler that prints the error message only
ShowBatchIdOmitted(console, id) == console

\* the console after "Batch ID: {batch_id}" is printed by a handler of the
\* try block around poll_batch
ShowBatchId(console, id) == Append(console, id)

\* the process ends with the given exit code
CliEnds(code, how) ==
    /\ cli_pc' = "exit"
    /\ exit_code' = code
    /\ cli_end' = how

\* main() goes on to its next stage
CliGoes(pc) ==
    /\ cli_pc' = pc
    /\ UNCHANGED << exit_code, cli_end >>

\* click parses the command line before main() runs: a path that does not
\* exist, a format or provider outside the choices or a malformed number is
\* a usage error, which ends the process with exit code 2
CliParse ==
    /\ mode = "cli"
    /\ cli_pc = "start"
    /\ \E accepted \in BOOLEAN :
          IF accepted THEN CliGoes("discover") ELSE CliEnds(2, "usage_error")
    /\ UNCHANGED << libVars, mode, n, client, construct_err, submitVars,
                    remote_status, remote_errs, now, pollVars, resVars, shown,
                    written, announced >>

\* "1. Discovering images": discover_images raises, finds nothing, or finds
\* images (of which n can be prepared)
CliDiscover ==
    /\ mode = "cli"
    /\ cli_pc = "discover"
    /\ \E found \in {"raised", "none", "some"} :
          CASE found = "raised" -> CliEnds(1, "discovery_error")
            [] found = "none" -> n = 0 /\ CliEnds(0, "no_images")
            [] OTHER -> CliGoes("stats")
    /\ UNCHANGED << libVars, mode, n, client, construct_err, submitVars,
                    remote_status, remote_errs, now, pollVars, resVars, shown,
                    written, announced >>

\* the discovery summary: get_image_stats stats every file again, outside
\* every try block; an OSError (a file removed since discovery) ends the
\* process with a traceback and exit code 1
CliStats ==
    /\ mode = "cli"
    /\ cli_pc = "stats"
    /\ \E stat_ok \in BOOLEAN :
          IF stat_ok THEN CliGoes("dry_run") ELSE CliEnds(1, "unhandled")
    /\ UNCHANGED << libVars, mode, n, client, construct_err, submitVars,
                    remote_status, remote_errs, now, pollVars, resVars, shown,
                    written, announced >>

\* "if dry_run: ... sys.exit(0)"
CliDryRun ==
    /\ mode = "cli"
    /\ cli_pc = "dry_run"
    /\ \E dry_run \in BOOLEAN :
          IF dry_run THEN CliEnds(0, "dry_run") ELSE CliGoes("prepare")
    /\ UNCHANGED << libVars, mode, n, client, construct_err, submitVars,
                    remote_status, remote_errs, now, pollVars, resVars, shown,
                    written, announced >>

\* "2. Preparing batch": prepare_batch raises or returns n requests
CliPrepare ==
    /\ mode = "cli"
    /\ cli_pc = "prepare"
    /\ \E raised \in BOOLEAN :
          IF raised THEN CliEnds(1, "prepare_error") ELSE CliGoes("prepared")
    /\ UNCHANGED << libVars, mode, n, client, construct_err, submitVars,
                    remote_status, remote_errs, now, pollVars, resVars, shown,
                    written, announced >>

\* "No images could be processed": exit 0 without submitting
CliNoRequests ==
    /\ mode = "cli"
    /\ cli_pc = "prepared"
    /\ n = 0
    /\ CliEnds(0, "no_requests")
    /\ UNCHANGED << libVars, mode, n, client, construct_err, submitVars, remote_status,
                    remote_errs, now, pollVars, resVars, shown, written,
                    announced >>

\* a handler around the submission that lets main() submit again
CliSubmitFailedRetries == CliGoes("prepared")

\* "except Exception as e: ... sys.exit(1)" around the construction and the
\* submission
CliSubmitFailed == CliEnds(1, "submit_error")

\* "3. Submitting batch": construct the client, submit, print the batch id
CliSubmit ==
    /\ mode = "cli"
    /\ cli_pc = "prepared"
    /\ n > 0
    /\ \E env_key \in EnvKeys, fail \in SubmitFailures, id \in BatchIds,
          unlink_ok \in BOOLEAN, d \in ClockSteps :
          LET c == BatchClientInit("openai", None, env_key)
          IN  IF c.error # NoObj
              THEN /\ construct_err' = c.error
                   /\ CliSubmitFailed
                   /\ UNCHANGED << client, submitVars, remote_status, now, shown >>
              ELSE /\ DoSubmit(c.self, fail, id, unlink_ok, d)
                   /\ client' = SelfAfterSubmit(c.self, id)
                   /\ UNCHANGED construct_err
                   /\ IF sub_outcome' = "returned"
                      THEN /\ shown' = << batch_id' >>
                           /\ CliGoes("submitted")
                      ELSE /\ CliSubmitFailed
                           /\ UNCHANGED shown
    /\ UNCHANGED << libVars, mode, n, remote_errs, pollVars, resVars, written,
                    announced >>

\* "4. Waiting for results": client.poll_batch(batch_id, poll_interval=30)
CliPoll ==
    /\ mode = "cli"
    /\ cli_pc = "submitted"
    /\ PollStart(client, batch_id, CliPollInterval, DefaultTimeout)
    /\ CliGoes("polling")
    /\ UNCHANGED << libVars, mode, n, client, construct_err, submitVars, remote_status,
                    remote_errs, now, resVars, shown, written, announced >>

\* handlers that end every failed poll alike
ExitOfPollFlat(outcome) == 1

\* the exit code of the two handlers around poll_batch: KeyboardInterrupt,
\* then Exception
ExitOfPoll(outcome) == IF outcome = "interrupted" THEN 130 ELSE 1

\* poll_batch has returned or raised: the try/except around it
CliPollEnd ==
    /\ mode = "cli"
    /\ cli_pc = "polling"
    /\ poll_pc = "done"
    /\ IF poll_outcome = "returned"
       THEN /\ CliGoes("retrieve")
            /\ UNCHANGED shown
       ELSE /\ shown' = ShowBatchId(shown, batch_id)
            /\ CliEnds(ExitOfPoll(poll_outcome),
                       IF poll_outcome = "interrupted" THEN "interrupted"
                                                       ELSE "poll_error")
    /\ PollFrameDropped
    /\ UNCHANGED << libVars, mode, n, client, construct_err, submitVars, remote_status,
                    remote_errs, now, resVars, written, announced >>

\* "5. Retrieving results": client.get_batch_results(batch_id)
CliGetResults ==
    /\ mode = "cli"
    /\ cli_pc = "retrieve"
    /\ DoResults(client, batch_id)
    /\ IF res_outcome' = "returned"
       THEN CliGoes("report")
       ELSE CliEnds(1, "results_error")
    /\ UNCHANGED << libVars, mode, n, client, construct_err, submitVars, remote_status,
                    remote_errs, now, pollVars, shown, written, announced >>

\* a KeyboardInterrupt outside the try block around poll_batch: no handler
\* of main() catches it ("except Exception" does not), click turns it into
\* "Aborted!" and exit code 1
CliAbort ==
    /\ mode = "cli"
    /\ cli_pc \in {"discover", "stats", "dry_run", "prepare", "prepared",
                   "submitted", "retrieve", "report"}
    /\ CliEnds(1, "aborted")
    /\ UNCHANGED << libVars, mode, n, client, construct_err, submitVars, remote_status,
                    remote_errs, now, pollVars, resVars, shown, written,
                    announced >>

----------------------------------------------------------------------------
(* prepare_batch: correlation ids and skipping *)

\* Strings are sequences of one-character strings.

\* the characters of [A-Za-z0-9_-]
IdChars ==
    {"A", "B", "C", "D", "E", "F", "G", "H", "I", "J", "K", "L", "M", "N", "O",
     "P", "Q", "R", "S", "T", "U", "V", "W", "X", "Y", "Z",
     "a", "b", "c", "d", "e", "f", "g", "h", "i", "j", "k", "l", "m", "n", "o",
     "p", "q", "r", "s", "t", "u", "v", "w", "x", "y", "z",
     "0", "1", "2", "3", "4", "5", "6", "7", "8", "9", "_", "-"}

\* the longest file stem tried: longer than an id can hold
MaxStem == 60

\* the longest list of images followed
MaxImages == 2

\* the field width of the index in "img_{index:04d}_"
INDEX_WIDTH == 4

\* the longest correlation id the batch endpoint takes
ID_MAX_LEN == 64

DecimalDigits == << "0", "1", "2", "3", "4", "5", "6", "7", "8", "9" >>

RECURSIVE Digits(_)
\* str(k) for k >= 0
Digits(k) ==
    IF k < 10
    THEN << DecimalDigits[k + 1] >>
    ELSE Digits(k \div 10) \o << DecimalDigits[(k % 10) + 1] >>

\* f"{index:04d}"
FormatIndex(index) ==
    LET ds == Digits(index)
    IN  IF Len(ds) >= INDEX_WIDTH
        THEN ds
        ELSE [i \in 1..(INDEX_WIDTH - Len(ds)) |-> "0"] \o ds

\* f"img_{index:04d}_"
IdPrefix(index) == << "i", "m", "g", "_" >> \o FormatIndex(index) \o << "_" >>

RECURSIVE DropInvalid(_)
\* the rest of s after a leading run of characters outside [A-Za-z0-9_-]
DropInvalid(s) ==
    IF s = << >> \/ Head(s) \in IdChars THEN s ELSE DropInvalid(Tail(s))

RECURSIVE ReSub(_)
\* re.sub(r"[^A-Za-z0-9_-]+", "_", s)
ReSub(s) ==
    IF s = << >> THEN << >>
    ELSE IF Head(s) \in IdChars
         THEN << Head(s) >> \o ReSub(Tail(s))
         ELSE << "_" >> \o ReSub(DropInvalid(Tail(s)))

RECURSIVE StripLeft(_)
StripLeft(s) ==
    IF s # << >> /\ Head(s) \in {"_", "-"} THEN StripLeft(Tail(s)) ELSE s

RECURSIVE StripRight(_)
StripRight(s) ==
    IF s # << >> /\ s[Len(s)] \in {"_", "-"}
    THEN StripRight(SubSeq(s, 1, Len(s) - 1))
    ELSE s

\* s.strip("_-")
Strip(s) == StripRight(StripLeft(s))

\* the sanitized stem, "image" if nothing is left of it
CleanStem(stem) ==
    LET cleaned == Strip(ReSub(stem))
    IN  IF cleaned = << >> THEN << "i", "m", "a", "g", "e" >> ELSE cleaned

\* a suffix length that forgets the prefix
MaxSuffixLenWhole(prefix) == ID_MAX_LEN

\* max(1, 64 - len(prefix))
MaxSuffixLen(prefix) == Max(1, ID_MAX_LEN - Len(prefix))

\* prepare_batch.build_custom_id
BuildCustomId(index, stem) ==
    LET prefix == IdPrefix(index)
        cleaned == CleanStem(stem)
        max_suffix_len == MaxSuffixLen(prefix)
    IN  prefix \o SubSeq(cleaned, 1, Min(Len(cleaned), max_suffix_len))

\* a stem of MaxStem letters, and one in which every other character is
\* outside [A-Za-z0-9_-]
LongStem == [i \in 1..MaxStem |-> "a"]
LongMixedStem == [i \in 1..MaxStem |-> IF i % 2 = 0 THEN "." ELSE "b"]

\* the file stems tried
Stems ==
    { << "a" >>,
      << "#" >>,
      << "a", " ", ".", "b" >>,
      << "_", "a", "-" >>,
      << "a", "_", "b" >>,
      LongStem,
      LongMixedStem }

\* runs of unreadable images that precede an image of the list
Gaps == {0, 998, 9998}

\* An entry of the list of images: a run of `gap` unreadable files followed by
\* one file with the given stem, readable or not.  The stem of an unreadable
\* file is never looked at.
ImageEntries ==
    [gap : Gaps, stem : Stems, readable : {TRUE}]
    \cup [gap : Gaps, stem : {<< "a" >>}, readable : {FALSE}]

RECURSIVE SeqsUpTo(_, _)
\* the sequences over S of length at most k
SeqsUpTo(S, k) ==
    IF k = 0 THEN {<< >>}
    ELSE LET shorter == SeqsUpTo(S, k - 1)
         IN  shorter \cup {Append(q, e) : q \in {r \in shorter : Len(r) = k - 1}, e \in S}

RECURSIVE IndexOf(_, _)
\* the index enumerate() gives the file of entry j of imgs
IndexOf(imgs, j) ==
    IF j = 1 THEN imgs[1].gap ELSE IndexOf(imgs, j - 1) + 1 + imgs[j].gap

\* preprocess_image: the image data, or None for a file it cannot process
PreprocessImage(img) ==
    IF img.readable
    THEN [filename |-> img.stem, media_type |-> "image/jpeg",
          base64_data |-> "dGVzdA=="]
    ELSE NoObj

\* the system prompt of every request
PHOTO_CRITIC_SYSTEM_PROMPT == "You are an expert photography critic. ..."

\* the text block of the user message
UserText == "Please critique this photograph according to the system prompt."

\* the max_tokens of every request
MAX_TOKENS == 1024

\* the model prepare_batch uses when none is given
DEFAULT_OPENAI_MODEL == "gpt-4o-mini"

\* build_anthropic_batch_request
BuildAnthropicBatchRequest(image_data, custom_id, model) ==
    [custom_id |-> custom_id,
     params |->
        [model |-> model,
         max_tokens |-> MAX_TOKENS,
         messages |->
            << [role |-> "user",
                content |->
                   << [type |-> "image",
                       source |-> [type |-> "base64",
                                   media_type |-> image_data.media_type,
                                   data |-> image_data.base64_data]],
                      [type |-> "text", text |-> UserText] >>] >>,
         system |-> PHOTO_CRITIC_SYSTEM_PROMPT,
         response_format |-> [type |-> "json"]]]

\* build_openai_batch_request
BuildOpenAIBatchRequest(image_data, custom_id, model) ==
    LET data_url == [media_type |-> image_data.media_type,
                     base64 |-> image_data.base64_data]
    IN  [custom_id |-> custom_id,
         method |-> "POST",
         url |-> "/v1/chat/completions",
         body |->
            [model |-> model,
             max_tokens |-> MAX_TOKENS,
             temperature |-> 0,
             response_format |-> [type |-> "json_object"],
             messages |->
                << [role |-> "system", content |-> PHOTO_CRITIC_SYSTEM_PROMPT],
                   [role |-> "user",
                    content |->
                       << [type |-> "text", text |-> UserText],
                          [type |-> "image_url",
                           image_url |-> [url |-> data_url]] >>] >>]]

\* build_batch_request
BuildBatchRequest(image_data, custom_id, model, provider) ==
    LET provider_normalized == Lower(provider)
    IN  CASE provider_normalized = "anthropic" ->
               [error |-> "NotImplementedError", request |-> NoObj]
          [] provider_normalized = "openai" ->
               [error |-> None,
                request |-> BuildOpenAIBatchRequest(image_data, custom_id,
                                                    model)]
          [] OTHER ->
               [error |-> "ValueError", request |-> NoObj]

\* a skipped image that still leaves a metadata record behind
MetadataAfterSkippingKept(metadata, img_data, custom_id) ==
    Append(metadata, [custom_id |-> custom_id, filename |-> << >>])

\* image_metadata after an iteration whose image was skipped
MetadataAfterSkipping(metadata, img_data, custom_id) == metadata

\* the models prepare_batch is called with: the default and a custom one
PrepModels == {DEFAULT_OPENAI_MODEL, "claude-opus-4-20250514"}

PrepIdle ==
    /\ images = << >>
    /\ prep_provider = "openai"
    /\ prep_model = DEFAULT_OPENAI_MODEL
    /\ prep_pc = "idle"
    /\ prep_pos = 0
    /\ batch_requests = << >>
    /\ image_metadata = << >>
    /\ prep_outcome = "none"

\* prepare_batch(images, provider=...) is called
PrepareStart ==
    /\ prep_pc = "idle"
    /\ images' \in SeqsUpTo(ImageEntries, MaxImages)
    /\ prep_provider' \in {"openai", "Anthropic"}
    /\ prep_model' \in PrepModels
    /\ prep_pc' = "loop"
    /\ UNCHANGED << prep_pos, batch_requests, image_metadata, prep_outcome >>

\* one entry of the list: the iterations over its run of unreadable files,
\* which all skip, and the iteration over its own file
PrepareImage ==
    /\ prep_pc = "loop"
    /\ prep_pos < Len(images)
    /\ LET j == prep_pos + 1
           img_path == images[j]
           idx == IndexOf(images, j)
           img_data == PreprocessImage(img_path)
           custom_id == BuildCustomId(idx, img_path.stem)
           built == BuildBatchRequest(img_data, custom_id, prep_model,
                                      prep_provider)
       IN  IF img_data = NoObj
           THEN /\ prep_pos' = j
                /\ image_metadata' =
                      MetadataAfterSkipping(image_metadata, img_data, custom_id)
                /\ UNCHANGED << batch_requests, prep_pc, prep_outcome >>
           ELSE IF built.error # None
           THEN /\ prep_pc' = "done"
                /\ prep_outcome' = built.error
                /\ UNCHANGED << prep_pos, batch_requests, image_metadata >>
           ELSE /\ prep_pos' = j
                /\ batch_requests' = Append(batch_requests, built.request)
                /\ image_metadata' =
                      Append(image_metadata,
                             [custom_id |-> custom_id,
                              filename |-> img_path.stem])
                /\ UNCHANGED << prep_pc, prep_outcome >>
    /\ UNCHANGED << images, prep_provider, prep_model >>

\* return batch_requests, image_metadata
PrepareReturn ==
    /\ prep_pc = "loop"
    /\ prep_pos = Len(images)
    /\ prep_pc' = "done"
    /\ prep_outcome' = "returned"
    /\ UNCHANGED << images, prep_provider, prep_model, prep_pos, batch_requests,
                    image_metadata >>

----------------------------------------------------------------------------
(* report.py: merge_results, filter_by_score, calculate_statistics *)

\* Scores are counted in tenths: 70 is the score 7.0.

\* the longest list of raw results followed
MaxResults == 2

\* overall scores tried: the tier boundaries, their neighbours, and two
\* scores outside [0, 10]
ScoreValues == {-5, 0, 49, 50, 65, 70, 89, 90, 100, 105}

\* the keys calculate_statistics reads
ScoreKeys ==
    {"overall_score", "composition_score", "lighting_score", "subject_score",
     "technical_score"}

\* the keys the system prompt requires of a critique
CritiqueKeys ==
    ScoreKeys \cup
    {"description", "composition_notes", "lighting_notes", "subject_notes",
     "technical_notes", "summary", "strengths", "improvements"}

\* a critique with every required key
Critique(score) ==
    [description |-> "d", composition_score |-> score,
     composition_notes |-> "c", lighting_score |-> score,
     lighting_notes |-> "l", subject_score |-> score, subject_notes |-> "s",
     technical_score |-> score, technical_notes |-> "t",
     overall_score |-> score, summary |-> "m",
     strengths |-> << "s1", "s2" >>, improvements |-> << "i1", "i2" >>]

\* the mapping f without the key k
Without(f, k) == [x \in (DOMAIN f) \ {k} |-> f[x]]

\* JSON values a text can hold
JsonObject(fields) == [kind |-> "object", fields |-> fields]
JsonArray == [kind |-> "array"]
JsonNumber == [kind |-> "number"]
JsonString == [kind |-> "string"]
JsonNull == [kind |-> "null"]

\* The text of a result is a sequence of tokens: white space, a "```json"
\* fence, a "```" fence, a JSON value, or text that is no JSON.
Ws == [tok |-> "ws"]
FenceJson == [tok |-> "fence_json"]
Fence == [tok |-> "fence"]
Garbage == [tok |-> "garbage"]
Value(v) == [tok |-> "value", json |-> v]

RECURSIVE LStripWs(_)
LStripWs(t) == IF t # << >> /\ Head(t) = Ws THEN LStripWs(Tail(t)) ELSE t

RECURSIVE RStripWs(_)
RStripWs(t) ==
    IF t # << >> /\ t[Len(t)] = Ws
    THEN RStripWs(SubSeq(t, 1, Len(t) - 1))
    ELSE t

\* str.strip()
StripWs(t) == RStripWs(LStripWs(t))

\* the three fence removals of parse_critique, in order
Unfence(t) ==
    LET t1 == IF t # << >> /\ Head(t) = FenceJson THEN Tail(t) ELSE t
        t2 == IF t1 # << >> /\ Head(t1) = Fence THEN Tail(t1) ELSE t1
        t3 == IF t2 # << >> /\ t2[Len(t2)] = Fence
              THEN SubSeq(t2, 1, Len(t2) - 1) ELSE t2
    IN  t3

\* json.loads: the value, or an error for anything but exactly one value
JsonLoads(t) ==
    IF Len(t) = 1 /\ t[1].tok = "value"
    THEN [error |-> FALSE, value |-> t[1].json]
    ELSE [error |-> TRUE, value |-> JsonNull]

\* parse_critique: the parsed JSON value, JsonNull standing for Python's None
\* (which json.loads returns for the text null, and parse_critique returns
\* for every failure)
ParseCritique(result) ==
    IF result.result.type # "succeeded" THEN JsonNull
    ELSE IF ~result.result.has_text \/ result.result.text = << >> THEN JsonNull
    ELSE LET loaded == JsonLoads(StripWs(Unfence(StripWs(result.result.text))))
         IN  IF loaded.error THEN JsonNull ELSE loaded.value

\* the metadata record with the given id that a dict built from the list
\* holds: the last one, or the empty dict
MetadataById(metadata, custom_id) ==
    LET hits == {i \in 1..Len(metadata) : metadata[i].custom_id = custom_id}
    IN  IF hits = {} THEN << >>
        ELSE metadata[CHOOSE i \in hits : \A j \in hits : j <= i]

\* dict.get(key, default)
Get(d, key, default) == IF key \in DOMAIN d THEN d[key] ELSE default

\* the merged item of one result: the critique's keys laid over the four
\* fields merge_results sets
MergedItem(custom_id, metadata, critique) ==
    critique @@
    [custom_id |-> custom_id,
     filename |-> Get(metadata, "filename", "unknown"),
     path |-> Get(metadata, "path", "unknown"),
     original_dimensions |-> Get(metadata, "original_dimensions", << 0, 0 >>)]

RECURSIVE MergeLoop(_, _, _)
\* the loop of merge_results from result i on, given what is merged so far
MergeLoop(rs, metadata, acc) ==
    IF rs = << >> THEN [outcome |-> "returned", merged |-> acc]
    ELSE LET result == Head(rs)
             critique == ParseCritique(result)
         IN  IF critique = JsonNull
             THEN MergeLoop(Tail(rs), metadata, acc)
             ELSE IF critique.kind # "object"
             THEN [outcome |-> "TypeError", merged |-> << >>]
             ELSE MergeLoop(Tail(rs), metadata,
                            Append(acc,
                                   MergedItem(result.custom_id,
                                              MetadataById(metadata,
                                                           result.custom_id),
                                              critique.fields)))

\* merge_results
MergeResults(rs, metadata) == MergeLoop(rs, metadata, << >>)

\* a filter that keeps only scores above the threshold
KeepsStrictlyAbove(r, threshold) == Get(r, "overall_score", 0) > threshold

\* r.get("overall_score", 0) >= min_score
Keeps(r, threshold) == Get(r, "overall_score", 0) >= threshold

\* filter_by_score
FilterByScore(rs, threshold) == SelectSeq(rs, LAMBDA r : Keeps(r, threshold))

\* the six tiers of the score distribution
TierNames ==
    {"excellent (9-10)", "great (8-9)", "good (7-8)", "average (6-7)",
     "below_average (5-6)", "poor (0-5)"}

\* tiers of which the top one leaves out its lower end
InTierOpenTop(tier, s) ==
    CASE tier = "excellent (9-10)" -> s > 90
      [] tier = "great (8-9)" -> 80 <= s /\ s < 90
      [] tier = "good (7-8)" -> 70 <= s /\ s < 80
      [] tier = "average (6-7)" -> 60 <= s /\ s < 70
      [] tier = "below_average (5-6)" -> 50 <= s /\ s < 60
      [] tier = "poor (0-5)" -> s < 50

\* the comprehension conditions of calculate_statistics
InTier(tier, s) ==
    CASE tier = "excellent (9-10)" -> s >= 90
      [] tier = "great (8-9)" -> 80 <= s /\ s < 90
      [] tier = "good (7-8)" -> 70 <= s /\ s < 80
      [] tier = "average (6-7)" -> 60 <= s /\ s < 70
      [] tier = "below_average (5-6)" -> 50 <= s /\ s < 60
      [] tier = "poor (0-5)" -> s < 50

RECURSIVE SumOf(_)
SumOf(q) == IF q = << >> THEN 0 ELSE Head(q) + SumOf(Tail(q))

\* round(sum(scores) / len(scores), 2), in hundredths, for scores in tenths
MeanOf(scores) ==
    LET total == 10 * SumOf(scores)
        count == Len(scores)
    IN  IF total >= 0
        THEN (2 * total + count) \div (2 * count)
        ELSE 0 - ((2 * (0 - total) + count) \div (2 * count))

\* calculate_statistics: a missing score key raises KeyError
CalculateStatistics(rs) ==
    IF rs = << >>
    THEN [outcome |-> "returned",
          stats |-> [total_images |-> 0, mean_overall_score |-> 0,
                     mean_composition_score |-> 0, mean_lighting_score |-> 0,
                     mean_subject_score |-> 0, mean_technical_score |-> 0,
                     score_distribution |-> << >>]]
    ELSE IF \E i \in 1..Len(rs) : ~(ScoreKeys \subseteq DOMAIN rs[i])
    THEN [outcome |-> "KeyError", stats |-> NoObj]
    ELSE LET scores(key) == [i \in 1..Len(rs) |-> rs[i][key]]
             overall_scores == scores("overall_score")
         IN  [outcome |-> "returned",
              stats |->
                [total_images |-> Len(rs),
                 mean_overall_score |-> MeanOf(overall_scores),
                 mean_composition_score |-> MeanOf(scores("composition_score")),
                 mean_lighting_score |-> MeanOf(scores("lighting_score")),
                 mean_subject_score |-> MeanOf(scores("subject_score")),
                 mean_technical_score |-> MeanOf(scores("technical_score")),
                 score_distribution |->
                    [tier \in TierNames |->
                        Len(SelectSeq(overall_scores,
                                      LAMBDA s : InTier(tier, s)))]]]

\* a raw result as get_batch_results builds it; has_text says whether its
\* message holds a text block
RawResult(custom_id, type, has_text, text) ==
    [custom_id |-> custom_id,
     result |-> [type |-> type, has_text |-> has_text, text |-> text]]

\* the raw results tried
RawResults ==
    {RawResult("img_0000_a", "succeeded", TRUE, << Value(JsonObject(Critique(s))) >>) :
        s \in ScoreValues}
    \cup
    {RawResult("img_0001_b", "succeeded", TRUE, t) :
        t \in {<< Value(JsonObject(Critique(70))) >>,
               << Ws, FenceJson, Ws, Value(JsonObject(Critique(90))), Ws, Fence, Ws >>,
               << Fence, Value(JsonObject(Critique(50))), Fence >>,
               << FenceJson, Value(JsonObject(Critique(65))) >>,
               << Garbage >>,
               << Ws >>,
               << >>,
               << Value(JsonObject(Critique(70))), Value(JsonObject(Critique(70))) >>,
               << Value(JsonArray) >>,
               << Value(JsonNumber) >>,
               << Value(JsonString) >>,
               << Value(JsonNull) >>,
               << Value(JsonObject(Without(Critique(70), "overall_score"))) >>,
               << Value(JsonObject(Without(Critique(70), "summary"))) >>,
               << Value(JsonObject(<< >>)) >>}}
    \cup
    {RawResult("img_0001_b", "succeeded", FALSE, << >>),
     RawResult("img_0001_b", "errored", FALSE, << >>),
     RawResult("img_0002_c", "succeeded", TRUE, << Value(JsonObject(Critique(90))) >>)}

\* a metadata record as prepare_batch builds it
Metadata(custom_id, filename) ==
    [custom_id |-> custom_id, filename |-> filename, path |-> filename,
     original_dimensions |-> << 1920, 1080 >>]

\* the metadata lists tried
MetadataLists ==
    {<< >>,
     << Metadata("img_0000_a", "a.jpg"), Metadata("img_0001_b", "b.jpg") >>,
     << Metadata("img_0001_b", "b.jpg"), Metadata("img_0000_a", "a.jpg") >>,
     << Metadata("img_0003_d", "d.jpg") >>}

\* thresholds tried
MinScores == {-10, 0, 70, 105}

ReportIdle ==
    /\ rep_pc = "idle"
    /\ batch_results = << >>
    /\ rep_metadata = << >>
    /\ merge_outcome = "none"
    /\ merged = << >>
    /\ min_score = 0
    /\ filtered = << >>
    /\ stats_outcome = "none"
    /\ stats = NoObj

\* merge_results(batch_results, image_metadata)
MergeCall ==
    /\ rep_pc = "idle"
    /\ batch_results' \in SeqsUpTo(RawResults, MaxResults)
    /\ rep_metadata' \in MetadataLists
    /\ LET m == MergeResults(batch_results', rep_metadata')
       IN  /\ merge_outcome' = m.outcome
           /\ merged' = m.merged
    /\ rep_pc' = "merged"
    /\ UNCHANGED << min_score, filtered, stats_outcome, stats >>

\* filter_by_score(merged, min_score)
FilterCall ==
    /\ rep_pc = "merged"
    /\ merge_outcome = "returned"
    /\ min_score' \in MinScores
    /\ filtered' = FilterByScore(merged, min_score')
    /\ rep_pc' = "filtered"
    /\ UNCHANGED << batch_results, rep_metadata, merge_outcome, merged,
                    stats_outcome, stats >>

\* calculate_statistics(filtered)
StatisticsCall ==
    /\ rep_pc = "filtered"
    /\ LET c == CalculateStatistics(filtered)
       IN  /\ stats_outcome' = c.outcome
           /\ stats' = c.stats
    /\ rep_pc' = "stats"
    /\ UNCHANGED << batch_results, rep_metadata, merge_outcome, merged,
                    min_score, filtered >>

----------------------------------------------------------------------------
(* report.py: generate_json_report, generate_markdown_report, generate_report *)

\* the longest list of raw results handed to generate_report
MaxGenResults == 2

\* x.get("overall_score", 0), the sort key of both writers
ScoreOf(r) == Get(r, "overall_score", 0)

\* a list in descending order with one more item: the item goes behind every
\* item that scores at least as much (sorted() is stable, also with
\* reverse=True)
InsertByScore(sorted_items, x) ==
    LET ahead == Cardinality({i \in 1..Len(sorted_items) :
                                ScoreOf(sorted_items[i]) >= ScoreOf(x)})
    IN  SubSeq(sorted_items, 1, ahead) \o << x >> \o
        SubSeq(sorted_items, ahead + 1, Len(sorted_items))

RECURSIVE SortLoop(_)
SortLoop(rs) ==
    IF rs = << >> THEN << >>
    ELSE InsertByScore(SortLoop(SubSeq(rs, 1, Len(rs) - 1)), rs[Len(rs)])

\* a writer that keeps the order of its argument
InInputOrder(rs) == rs

\* sorted(results, key=lambda x: x.get("overall_score", 0), reverse=True)
SortedResults(rs) == SortLoop(rs)

\* datetime.now().isoformat()
Timestamp == "2026-01-01T00:00:00"

\* json.dump: the text of one JSON object.  A tuple is written as an array
\* and comes back from json.load as a list; both are sequences here.
JsonDump(obj) == << Value(JsonObject(obj)) >>

\* generate_json_report: io_ok says whether open(output_path, "w") succeeds
GenerateJsonReport(rs, io_ok) ==
    LET sorted_results == SortedResults(rs)
        c == CalculateStatistics(sorted_results)
    IN  IF c.outcome # "returned"
        THEN [outcome |-> c.outcome, written |-> FALSE, text |-> << >>]
        ELSE IF ~io_ok
        THEN [outcome |-> "OSError", written |-> FALSE, text |-> << >>]
        ELSE [outcome |-> "returned", written |-> TRUE,
              text |-> JsonDump([generated_at |-> Timestamp,
                                 statistics |-> c.stats,
                                 results |-> sorted_results])]

\* the keys generate_markdown_report reads with result[...] of every result
\* it lists
MarkdownKeys ==
    {"filename", "overall_score", "path", "summary", "composition_score",
     "composition_notes", "lighting_score", "lighting_notes", "subject_score",
     "subject_notes", "technical_score", "technical_notes"}

\* the scores some tier section of the Markdown report lists
InSomeSection(s) == (0 <= s /\ s < 100) \/ s = 100

\* generate_markdown_report: whether the file is written
GenerateMarkdownReport(rs, io_ok) ==
    LET sorted_results == SortedResults(rs)
        c == CalculateStatistics(sorted_results)
    IN  IF c.outcome # "returned"
        THEN [outcome |-> c.outcome, written |-> FALSE]
        ELSE IF \E i \in 1..Len(sorted_results) :
                    /\ InSomeSection(ScoreOf(sorted_results[i]))
                    /\ ~(MarkdownKeys \subseteq DOMAIN sorted_results[i])
        THEN [outcome |-> "KeyError", written |-> FALSE]
        ELSE IF ~io_ok
        THEN [outcome |-> "OSError", written |-> FALSE]
        ELSE [outcome |-> "returned", written |-> TRUE]

\* a format check that lets every format through
ValidFormatAny(format) == TRUE

\* "format not in {'json', 'markdown', 'both'}", negated
ValidFormat(format) == format \in {"json", "markdown", "both"}

\* an emptiness test that never holds
NoResultsNever(rs) == FALSE

\* "if not results"
NoResults(rs) == rs = << >>

\* generate_report before its first statement
NotCalled ==
    [outcome |-> "none", merge_called |-> FALSE, filter_called |-> FALSE,
     warned |-> FALSE, merged |-> << >>, results |-> << >>,
     json_written |-> FALSE, json_text |-> << >>, md_written |-> FALSE]

\* generate_report: how it ends, which of its steps ran, the list it handed
\* to the writers and the files it wrote
GenerateReport(brs, metadata, format, threshold, io_ok) ==
    IF ~ValidFormat(format)
    THEN [NotCalled EXCEPT !.outcome = "ValueError"]
    ELSE
    LET m == MergeResults(brs, metadata)
        after_merge == [NotCalled EXCEPT !.merge_called = TRUE,
                                         !.merged = m.merged]
    IN  IF m.outcome # "returned"
        THEN [after_merge EXCEPT !.outcome = m.outcome]
        ELSE
        LET rs == IF threshold > 0 THEN FilterByScore(m.merged, threshold)
                                   ELSE m.merged
            after_filter == [after_merge EXCEPT !.filter_called = threshold > 0,
                                                !.results = rs]
        IN  IF NoResults(rs)
            THEN [after_filter EXCEPT !.outcome = "returned", !.warned = TRUE]
            ELSE
            LET j == IF format \in {"json", "both"}
                     THEN GenerateJsonReport(rs, io_ok)
                     ELSE [outcome |-> "returned", written |-> FALSE,
                           text |-> << >>]
                after_json == [after_filter EXCEPT !.json_written = j.written,
                                                   !.json_text = j.text]
            IN  IF j.outcome # "returned"
                THEN [after_json EXCEPT !.outcome = j.outcome]
                ELSE
                LET md == IF format \in {"markdown", "both"}
                          THEN GenerateMarkdownReport(rs, io_ok)
                          ELSE [outcome |-> "returned", written |-> FALSE]
                IN  [after_json EXCEPT !.outcome = md.outcome,
                                       !.md_written = md.written]

\* a critique whose object also carries keys that merge_results sets
CritiqueWithMergeKeys ==
    [custom_id |-> "img_9999_x", filename |-> "x.jpg"] @@ Critique(70)

\* the raw results handed to generate_report
GenRawResults ==
    {RawResult("img_0000_a", "succeeded", TRUE,
               << Value(JsonObject(Critique(90))) >>),
     RawResult("img_0001_b", "succeeded", TRUE,
               << Value(JsonObject(Critique(50))) >>),
     RawResult("img_0002_c", "succeeded", TRUE,
               << Value(JsonObject(Critique(90))) >>),
     RawResult("img_0001_b", "errored", FALSE, << >>),
     RawResult("img_0001_b", "succeeded", TRUE,
               << Value(JsonObject(Without(Critique(70), "overall_score"))) >>),
     RawResult("img_0001_b", "succeeded", TRUE,
               << Value(JsonObject(Without(Critique(70), "summary"))) >>),
     RawResult("img_0001_b", "succeeded", TRUE, << Value(JsonArray) >>),
     RawResult("img_0001_b", "succeeded", TRUE,
               << Value(JsonObject(CritiqueWithMergeKeys)) >>)}

\* the metadata lists handed to generate_report
GenMetadataLists ==
    {<< >>,
     << Metadata("img_0000_a", "a.jpg"), Metadata("img_0001_b", "b.jpg") >>}

\* the formats handed to generate_report
GenFormats == {"json", "markdown", "both", "xml"}

\* the thresholds handed to generate_report
GenMinScores == {0, 70, 105}

\* no generate_report call yet
NoArgs ==
    [batch_results |-> << >>, image_metadata |-> << >>, format |-> "none",
     min_score |-> 0, io_ok |-> TRUE]

GenIdle ==
    /\ gen_pc = "idle"
    /\ gen_args = NoArgs
    /\ gen = NotCalled

\* generate_report(batch_results, image_metadata, output_path, format,
\* min_score)
GenerateReportCall ==
    /\ gen_pc = "idle"
    /\ \E brs \in SeqsUpTo(GenRawResults, MaxGenResults),
          metadata \in GenMetadataLists, format \in GenFormats,
          threshold \in GenMinScores, io_ok \in BOOLEAN :
          /\ gen_args' = [batch_results |-> brs, image_metadata |-> metadata,
                          format |-> format, min_score |-> threshold,
                          io_ok |-> io_ok]
          /\ gen' = GenerateReport(brs, metadata, format, threshold, io_ok)
    /\ gen_pc' = "done"

----------------------------------------------------------------------------
(* main() of cli.py: the report step *)

\* the formats click lets through, and the thresholds tried
CliFormats == {"json", "markdown", "both"}
CliMinScores == {0, 70}

\* what the text of a succeeded result can be: two critiques, and JSON that
\* is no object
CliTexts ==
    {<< Value(JsonObject(Critique(90))) >>,
     << Value(JsonObject(Critique(50))) >>,
     << Value(JsonArray) >>}

\* the ids of the results that carry a text
SucceededIds(rs) ==
    {rs[j].custom_id : j \in {k \in 1..Len(rs) : rs[k].result.type = "succeeded"}}

\* the results of get_batch_results with the texts filled in
CliRawResults(rs, texts) ==
    [j \in 1..Len(rs) |->
        LET succeeded == rs[j].result.type = "succeeded"
        IN  RawResult(rs[j].custom_id, rs[j].result.type, succeeded,
                      IF succeeded THEN texts[rs[j].custom_id] ELSE << >>)]

\* the image_metadata prepare_batch returned with the n requests
CliMetadata == [i \in 1..n |-> Metadata(i, "photo.jpg")]

\* the files a generate_report call wrote, by suffix
FilesOf(g) ==
    {f \in {".json", ".md"} :
        \/ f = ".json" /\ g.json_written
        \/ f = ".md" /\ g.md_written}

\* the files the completion message names as saved
Announced(format) ==
    CASE format = "json" -> {".json"}
      [] format = "markdown" -> {".md"}
      [] OTHER -> {".json", ".md"}

\* "6. Generating report" and the completion message; the texts of the
\* results are settled here, where they are first read
CliReport ==
    /\ mode = "cli"
    /\ cli_pc = "report"
    /\ \E format \in CliFormats, threshold \in CliMinScores,
          io_ok \in BOOLEAN, texts \in [SucceededIds(results) -> CliTexts] :
          LET g == GenerateReport(CliRawResults(results, texts), CliMetadata,
                                  format, threshold, io_ok)
          IN  /\ written' = FilesOf(g)
              /\ IF g.outcome # "returned"
                 THEN /\ CliEnds(1, "report_error")
                      /\ UNCHANGED announced
                 ELSE /\ CliEnds(0, "complete")
                      /\ announced' = Announced(format)
    /\ UNCHANGED << libVars, mode, n, client, construct_err, submitVars, remote_status,
                    remote_errs, now, pollVars, resVars, shown >>

----------------------------------------------------------------------------
(* The system *)

\* no library function has been called
LibIdle == PrepIdle /\ ReportIdle /\ GenIdle

\* the state of the batch lifecycle before anything is constructed
BatchStart ==
    /\ client = NoObj
    /\ construct_err = NoObj
    /\ sub_outcome = "none"
    /\ batch_id = None
    /\ temp_written = FALSE
    /\ temp_left = FALSE
    /\ uploaded = FALSE
    /\ remote_status = "none"
    /\ remote_errs = {}
    /\ now = 0
    /\ poll_pc = "idle"
    /\ poll_self = NoObj
    /\ poll_batch_id = None
    /\ poll_interval = 0
    /\ timeout = 0
    /\ start_time = 0
    /\ last_log_time = 0
    /\ progress_log = << >>
    /\ status = NoObj
    /\ poll_outcome = "none"
    /\ poll_result = NoObj
    /\ poll_err = NoObj
    /\ res_self = NoObj
    /\ res_status = NoObj
    /\ res_outcome = "none"
    /\ results = << >>
    /\ content_read = FALSE
    /\ cli_pc = IF mode = "cli" THEN "start" ELSE "n/a"
    /\ exit_code = Running
    /\ shown = << >>
    /\ cli_end = "running"
    /\ written = {}
    /\ announced = {}

Init ==
    /\ mode \in {"cli", "api"}
    /\ n \in IF mode = "cli" THEN CliRequestCounts ELSE RequestCounts
    /\ BatchStart
    /\ LibIdle

\* one step of the poll_batch loop
PollStep == PollCheck \/ PollFetch \/ PollSleep

Next ==
    \/ ApiConstruct
    \/ ApiSubmit
    \/ ApiPoll
    \/ ApiGetResults
    \/ CliParse
    \/ CliDiscover
    \/ CliStats
    \/ CliDryRun
    \/ CliPrepare
    \/ CliNoRequests
    \/ CliSubmit
    \/ CliPoll
    \/ CliPollEnd
    \/ CliGetResults
    \/ CliReport
    \/ CliAbort
    \/ PollCheck
    \/ PollFetch
    \/ PollSleep
    \/ Interrupt
    \/ RemoteAdvance

Spec == Init /\ [][Next]_vars

\* prepare_batch called on its own
PrepInit ==
    /\ mode = "api"
    /\ n = 0
    /\ BatchStart
    /\ LibIdle

PrepNext ==
    \/ PrepareStart /\ UNCHANGED << batchVars, reportVars, genVars >>
    \/ PrepareImage /\ UNCHANGED << batchVars, reportVars, genVars >>
    \/ PrepareReturn /\ UNCHANGED << batchVars, reportVars, genVars >>

PrepSpec == PrepInit /\ [][PrepNext]_vars

\* the functions of report.py called on their own
ReportInit == PrepInit

ReportNext ==
    \/ MergeCall /\ UNCHANGED << batchVars, prepVars, genVars >>
    \/ FilterCall /\ UNCHANGED << batchVars, prepVars, genVars >>
    \/ StatisticsCall /\ UNCHANGED << batchVars, prepVars, genVars >>

ReportSpec == ReportInit /\ [][ReportNext]_vars

\* generate_report called on its own
GenInit == PrepInit

GenNext ==
    \/ GenerateReportCall /\ UNCHANGED << batchVars, prepVars, reportVars >>

GenSpec == GenInit /\ [][GenNext]_vars

\* a poll_batch step at which the clock is seen to have advanced
ClockAdvances == PollStep /\ now' > now

\* the caller's thread runs poll_batch on, and the clock advances
FairSpec == Spec /\ WF_vars(PollStep) /\ WF_vars(ClockAdvances)

----------------------------------------------------------------------------
(* Properties *)

PollActive == poll_pc \in {"check", "fetch", "sleep"}

\* a step of poll_batch itself (not of the user, the service or the caller)
\* that leaves position pc
PollStepFrom(pc) ==
    /\ poll_pc = pc
    /\ poll_pc' # pc
    /\ poll_outcome' # "interrupted"

\* C1, as stated: poll_batch, unless the user interrupts it, ends in one of
\* three outcomes: it returns the ended status, raises the batch-failed error
\* or raises the timeout error.
C1_ThreeOutcomes ==
    poll_pc = "done" /\ poll_outcome # "interrupted"
        => poll_outcome \in {"returned", "failed", "timeout"}

\* C1, amended: once poll_batch is entered for a submitted batch it ends,
\* provided the clock advances, in exactly one outcome: it returns the ended
\* status, raises the batch-failed error, raises the timeout error, lets the
\* error of a failing status fetch through, or is interrupted by the user.
\* Every status fetched before the last one is in_progress, and after the
\* outcome there is no further step of the loop: no fetch, no sleep.
C1_PollEndsInOneOutcome ==
    /\ [](poll_pc = "done" <=> poll_outcome # "none")
    /\ [](poll_outcome \in {"none", "returned", "failed", "timeout",
                            "fetch_error", "interrupted"})
    /\ [](PollActive => sub_outcome = "returned" /\ n > 0)
    /\ [][PollStepFrom("fetch") /\ poll_pc' = "sleep"
            => status'.processing_status = "in_progress"]_vars
    /\ [][poll_outcome # "none"
            => /\ ~(PollCheck \/ PollFetch \/ PollSleep)
               /\ UNCHANGED << poll_outcome, poll_result, poll_err, now >>]_vars
    /\ (PollActive ~> poll_pc = "done")

\* C1: poll_batch fetched an in_progress status, slept, and then timed out
C1_Witness ==
    /\ poll_pc = "done"
    /\ poll_outcome = "timeout"
    /\ status # NoObj
    /\ now - start_time > timeout

\* C2: the timeout check raises exactly when the elapsed time since polling
\* started exceeds the timeout; what it raises is a TimeoutError, not the
\* Exception of a failed batch, and it carries the batch id poll_batch was
\* called with, which is the id submit_batch returned.
C2_TimeoutCarriesBatchId ==
    /\ [][PollStepFrom("check")
            => (now' - start_time > timeout <=> poll_outcome' = "timeout")]_vars
    /\ [][poll_outcome' = "timeout" /\ poll_outcome = "none"
            => /\ poll_pc = "check"
               /\ poll_err' = [kind |-> "TimeoutError",
                               batch_id |-> poll_batch_id,
                               timeout |-> timeout]]_vars
    /\ [](poll_outcome = "timeout"
            => /\ poll_err.kind = "TimeoutError"
               /\ poll_err.kind # "Exception"
               /\ poll_err.batch_id = batch_id
               /\ poll_result = NoObj)

\* C2: only in_progress statuses were fetched until the deadline passed
C2_Witness ==
    /\ poll_outcome = "timeout"
    /\ poll_pc = "done"
    /\ status # NoObj
    /\ status.processing_status = "in_progress"
    /\ timeout > 0
    /\ poll_err.batch_id = batch_id

\* C3: a fetch that finds the native status canceled, failed or expired ends
\* poll_batch there: it raises the batch-failed error carrying that native
\* status, returns nothing and neither sleeps nor fetches again.
C3_FailedStatusRaises ==
    /\ [][PollStepFrom("fetch") /\ poll_outcome' # "fetch_error"
          /\ status'.provider_status \in {"canceled", "failed", "expired"}
            => /\ poll_pc' = "done"
               /\ poll_outcome' = "failed"
               /\ poll_err' = [kind |-> "Exception",
                               provider_status |-> status'.provider_status]
               /\ poll_result' = NoObj]_vars
    /\ [][poll_outcome = "failed"
            => /\ ~(PollFetch \/ PollSleep)
               /\ UNCHANGED << poll_outcome, poll_result, poll_err >>]_vars

\* C3: the service canceled the batch and poll_batch raised
C3_Witness ==
    /\ poll_pc = "done"
    /\ poll_outcome = "failed"
    /\ poll_err = [kind |-> "Exception", provider_status |-> "canceled"]
    /\ remote_status = "canceled"

\* C4: poll_batch returns only at a status fetch, the status it returns is the
\* one of that fetch, and its processing_status is ended, never in_progress.
C4_ReturnsEndedStatus ==
    /\ [][poll_outcome = "none" /\ poll_outcome' = "returned"
            => /\ poll_pc = "fetch"
               /\ poll_result' = status'
               /\ status'.processing_status = "ended"]_vars
    /\ [](poll_result # NoObj
            => /\ poll_outcome = "returned"
               /\ poll_result.processing_status = "ended"
               /\ poll_result.processing_status # "in_progress")
    /\ [](poll_outcome = "returned" => poll_result # NoObj)

\* C4: poll_batch returned after at least one sleep
C4_Witness ==
    /\ poll_pc = "done"
    /\ poll_outcome = "returned"
    /\ poll_result = status
    /\ now > start_time

\* C5: the client object poll_batch or get_batch_results runs on is the same
\* whether it is the submitting client or one constructed afresh from the
\* credentials: submit_batch leaves nothing on the client, the two operations
\* change nothing on it, and the batch id they work on is the one submitted.
C5_ResumableFromBatchId ==
    /\ [](client # NoObj => client = FreshClient(client.client.client))
    /\ [](poll_pc # "idle" => poll_self = client /\ poll_batch_id = batch_id)
    /\ [](res_outcome # "none" => res_self = client)
    /\ [][sub_outcome # "none" => client' = client]_vars

\* C5: both operations ran through a fresh client and succeeded
C5_Witness ==
    /\ mode = "api"
    /\ poll_outcome = "returned"
    /\ poll_self = FreshClient("sk-arg")
    /\ res_outcome = "returned"
    /\ res_self = FreshClient("sk-arg")
    /\ Len(results) > 0

\* C6: in a CLI run the batch id is on the console from the moment submission
\* returns it, hence before polling starts, and it is printed a second time
\* when polling ends by timeout, provider-side failure, status-fetch error or
\* user interrupt.
C6_BatchIdShown ==
    mode = "cli" =>
        /\ sub_outcome = "returned" => Len(shown) >= 1 /\ shown[1] = batch_id
        /\ poll_pc # "idle" => Len(shown) >= 1 /\ shown[1] = batch_id
        /\ cli_pc = "exit"
           /\ poll_outcome \in {"timeout", "failed", "fetch_error", "interrupted"}
             => shown = << batch_id, batch_id >>

\* C6: a CLI run whose polling ended by a status-fetch error
C6_Witness ==
    /\ mode = "cli"
    /\ cli_pc = "exit"
    /\ poll_outcome = "fetch_error"
    /\ shown = << batch_id, batch_id >>

\* C7: submit_batch on an empty list ends with the empty-batch error and has
\* written no temporary file, uploaded nothing and created no remote batch.
C7_EmptyBatchNoSideEffect ==
    n = 0 /\ sub_outcome # "none"
        => /\ sub_outcome = "empty_batch"
           /\ batch_id = None
           /\ ~temp_written
           /\ ~temp_left
           /\ ~uploaded
           /\ remote_status = "none"

\* C7: submit_batch was called with the empty list
C7_Witness ==
    /\ n = 0
    /\ client # NoObj
    /\ sub_outcome = "empty_batch"

\* C8, as stated: submit_batch on a list longer than the cap of 10,000 ends
\* with the batch-too-large error and creates no remote batch.
C8_TooLargeRejected ==
    n > MAX_BATCH /\ sub_outcome # "none"
        => /\ sub_outcome = "batch_too_large"
           /\ remote_status = "none"

\* C9: get_batch_results that fetched a status whose native status is not
\* completed ends with the not-ready error and has not read any output
\* content; it returns a list only when the status it fetched is ended.
C9_ResultsNotReady ==
    /\ res_status # NoObj /\ res_status.provider_status # "completed"
         => /\ res_outcome = "not_ready"
            /\ ~content_read
            /\ results = << >>
    /\ res_outcome = "returned"
         => /\ res_status # NoObj
            /\ res_status.processing_status = "ended"
    /\ res_outcome # "returned" => results = << >>
    /\ content_read => res_status.processing_status = "ended"

\* C9: get_batch_results was called while the batch was still in progress
C9_Witness ==
    /\ res_outcome = "not_ready"
    /\ res_status.provider_status = "in_progress"

ResultIds == {results[j].custom_id : j \in 1..Len(results)}

\* C10, as stated: for an ended batch whose output could be downloaded,
\* get_batch_results returns one result per submitted request, no two of them
\* with the same correlation id.
C10_OneResultPerRequest ==
    (/\ res_status # NoObj
     /\ res_status.processing_status = "ended"
     /\ res_outcome # "content_error")
        => /\ res_outcome = "returned"
           /\ Len(results) = n
           /\ ResultIds = 1..n

----------------------------------------------------------------------------
(* Construction and status normalisation *)

\* the client objects on which submit, status, poll or results have run or can run
ClientsInUse == {c \in {client, poll_self, res_self} : c # NoObj}

\* C11: constructing a client fails at construction, before any remote call:
\* with NotImplementedError for anthropic in any letter case, with a ValueError
\* naming the value given for any other unsupported provider, and with a
\* ValueError for a missing credential; after a failed construction there is no
\* client, nothing was submitted, polled or fetched, and every client in use is
\* one of the implemented provider (openai).
C11_ConstructionFailsFast ==
    /\ \A provider \in Providers, api_key \in ApiKeys, env_key \in EnvKeys :
          LET c == BatchClientInit(provider, api_key, env_key)
              missing == (api_key = None /\ env_key \in {None, ""})
          IN  /\ provider \in {"anthropic", "Anthropic"} =>
                    /\ c.self = NoObj
                    /\ c.error # NoObj
                    /\ c.error.type = "NotImplementedError"
              /\ provider \notin {"anthropic", "Anthropic", "openai", "OpenAI"} =>
                    /\ c.self = NoObj
                    /\ c.error # NoObj
                    /\ c.error.type = "ValueError"
                    /\ c.error.value = provider
              /\ (provider \in {"openai", "OpenAI"} /\ missing) =>
                    /\ c.self = NoObj
                    /\ c.error # NoObj
                    /\ c.error.type = "ValueError"
              /\ (provider \in {"openai", "OpenAI"} /\ ~missing) =>
                    /\ c.error = NoObj
                    /\ c.self # NoObj
    /\ (construct_err # NoObj) =>
          /\ client = NoObj
          /\ sub_outcome = "none"
          /\ ~temp_written
          /\ ~uploaded
          /\ remote_status = "none"
          /\ poll_pc = "idle"
          /\ res_outcome = "none"
          /\ ~content_read
    /\ \A c \in ClientsInUse : c.provider = "openai"
    /\ (sub_outcome # "none" \/ poll_pc # "idle" \/ res_outcome # "none") =>
          (construct_err = NoObj /\ ClientsInUse # {})

\* a construction has failed for an unsupported provider name, which the
\* error carries
C11_Witness ==
    /\ construct_err # NoObj
    /\ construct_err.type = "ValueError"
    /\ construct_err.value = "gemini"
    /\ client = NoObj
    /\ mode = "api"

\* terminal, as the specification defines it for a status record
Terminal(st) ==
    \/ st.processing_status = "ended"
    \/ st.provider_status \in {"canceled", "expired", "failed"}

\* the status records get_batch_status has handed out and that are still held
StatusesHeld == {st \in {status, poll_result, res_status} : st # NoObj}

\* C12 as stated: processing_status is ended exactly when the batch is in a
\* terminal state (ended, or natively canceled, expired or failed), and
\* in_progress otherwise; the native status is passed through.
C12_EndedIffTerminal ==
    \A st \in StatusesHeld :
        /\ st.provider_status \in NativeStatuses
        /\ st.processing_status \in {"ended", "in_progress"}
        /\ (st.processing_status = "ended") <=> Terminal(st)

\* C12 amended: processing_status is ended exactly when the native status is
\* completed and in_progress for every other native status (the terminal
\* failed, expired and canceled included); the native status string is passed
\* through unchanged, and a status is returned for every native status, so a
\* status is terminal iff it is ended or natively canceled, expired or failed,
\* that is iff the service will not move it on.
C12_EndedIffCompleted ==
    /\ \A st \in StatusesHeld :
          /\ st.provider_status \in NativeStatuses
          /\ st.processing_status \in {"ended", "in_progress"}
          /\ (st.processing_status = "ended") <=> (st.provider_status = "completed")
          /\ Terminal(st) <=> (NextNative(st.provider_status) = {})
    /\ \A native \in NativeStatuses :
          LET b == [RemoteBatch(None) EXCEPT !.status = native]
              st == GetBatchStatus(NoObj, b)
          IN  /\ st.provider_status = native
              /\ st.processing_status \in {"ended", "in_progress"}
    /\ (status # NoObj /\ poll_outcome \in {"returned", "failed"}) =>
          status.provider_status = remote_status
    /\ (poll_outcome = "returned") => poll_result.provider_status = remote_status

\* poll_batch holds the status of a batch the service has marked failed: it is
\* terminal and its processing_status is in_progress
C12_Witness ==
    /\ status # NoObj
    /\ status.provider_status = "failed"
    /\ status.processing_status = "in_progress"
    /\ poll_outcome = "failed"

----------------------------------------------------------------------------
(* prepare_batch *)

\* the entries of imgs, among the first pos, whose file is readable, in order
Kept(imgs, pos) == SelectSeq([j \in 1..pos |-> j], LAMBDA j : imgs[j].readable)

\* the correlation ids prepare_batch has assigned so far, in order
AssignedIds == [k \in 1..Len(image_metadata) |-> image_metadata[k].custom_id]

\* C13: the correlation ids prepare_batch assigns are pairwise distinct, at
\* most 64 characters long, made of characters of [A-Za-z0-9_-] only, and
\* determined by the image's index in the list and its stem: "img_", the index
\* in at least four digits, "_", and the sanitized stem ("image" if nothing is
\* left of it) cut to what the 64 characters leave.
C13_IdsDistinctShortClean ==
    LET kept == Kept(images, prep_pos)
    IN  /\ Len(AssignedIds) <= Len(kept)
        /\ \A k \in 1..Len(AssignedIds) :
              LET id == AssignedIds[k]
                  index == IndexOf(images, kept[k])
                  digits == Digits(index)
                  cleaned == CleanStem(images[kept[k]].stem)
                  room == ID_MAX_LEN - (5 + Max(Len(digits), INDEX_WIDTH))
              IN  /\ Len(id) <= ID_MAX_LEN
                  /\ \A i \in 1..Len(id) : id[i] \in IdChars
                  /\ \A l \in 1..Len(AssignedIds) : l # k => AssignedIds[l] # id
                  /\ SubSeq(id, 1, 4) = << "i", "m", "g", "_" >>
                  /\ \A i \in 1..Len(digits) :
                        id[4 + Max(Len(digits), INDEX_WIDTH) - Len(digits) + i]
                            = digits[i]
                  /\ \A i \in 1..(INDEX_WIDTH - Len(digits)) : id[4 + i] = "0"
                  /\ id[5 + Max(Len(digits), INDEX_WIDTH)] = "_"
                  /\ SubSeq(id, 6 + Max(Len(digits), INDEX_WIDTH), Len(id))
                        = SubSeq(cleaned, 1, Min(Len(cleaned), room))
                  /\ \A i \in 1..Len(cleaned) : cleaned[i] \in IdChars
                  /\ cleaned # << >>

\* prepare_batch has returned ids for an image at index 10,000 or above whose
\* id fills all 64 characters, and for an image whose stem sanitizes to nothing
C13_Witness ==
    /\ prep_outcome = "returned"
    /\ Len(AssignedIds) = 2
    /\ \E k \in 1..2 :
          /\ IndexOf(images, Kept(images, prep_pos)[k]) >= 10000
          /\ Len(AssignedIds[k]) = ID_MAX_LEN
    /\ \E k \in 1..2 :
          /\ images[Kept(images, prep_pos)[k]].stem = << "#" >>
          /\ SubSeq(AssignedIds[k], Len(AssignedIds[k]) - 4, Len(AssignedIds[k]))
                = << "i", "m", "a", "g", "e" >>

\* C14: an image that cannot be preprocessed never aborts prepare_batch; the
\* request list and the metadata list have equal length, their i-th elements
\* carry the same correlation id, and they hold one entry for each image
\* whose preprocessing succeeded, in input order, none for a skipped image.
C14_SkippedImagesAbsent ==
    LET kept == Kept(images, prep_pos)
    IN  /\ Len(batch_requests) = Len(image_metadata)
        /\ \A k \in 1..Len(image_metadata) :
              batch_requests[k].custom_id = image_metadata[k].custom_id
        /\ prep_provider = "openai" =>
              /\ prep_outcome \in {"none", "returned"}
              /\ Len(image_metadata) = Len(kept)
              /\ \A k \in 1..Len(image_metadata) :
                    /\ image_metadata[k].filename = images[kept[k]].stem
                    /\ image_metadata[k].custom_id =
                          BuildCustomId(IndexOf(images, kept[k]),
                                        images[kept[k]].stem)
              /\ \A k, l \in 1..Len(image_metadata) :
                    k < l => IndexOf(images, kept[k]) < IndexOf(images, kept[l])
        /\ prep_outcome = "returned" => prep_pos = Len(images)

\* prepare_batch has returned after skipping the first image of two
C14_Witness ==
    /\ prep_outcome = "returned"
    /\ Len(images) = 2
    /\ ~images[1].readable
    /\ images[2].readable
    /\ Len(batch_requests) = 1
    /\ Len(image_metadata) = 1

----------------------------------------------------------------------------
(* merge_results, filter_by_score, calculate_statistics *)

\* merge_results has been called
MergeDone == rep_pc # "idle"

\* no raw result's correlation id is that of a metadata record
NoIdMatches ==
    \A i \in 1..Len(batch_results), j \in 1..Len(rep_metadata) :
        batch_results[i].custom_id # rep_metadata[j].custom_id

\* the result is succeeded and its text, trimmed and without its fence, parses
\* as JSON
ParsesAsJson(r) ==
    /\ r.result.type = "succeeded"
    /\ r.result.has_text
    /\ r.result.text # << >>
    /\ ~JsonLoads(StripWs(Unfence(StripWs(r.result.text)))).error

\* the result is succeeded and its text parses as a JSON object
ParsesAsObject(r) ==
    /\ ParsesAsJson(r)
    /\ JsonLoads(StripWs(Unfence(StripWs(r.result.text)))).value.kind = "object"

\* C15: given K raw results and M metadata records with no correlation id in
\* common, merge returns K items whose filename and path are "unknown" and
\* whose dimensions are (0, 0), and it never throws.
C15_UnmatchedGetDefaults ==
    (MergeDone /\ NoIdMatches) =>
        /\ merge_outcome = "returned"
        /\ Len(merged) = Len(batch_results)
        /\ \A k \in 1..Len(merged) :
              /\ merged[k].filename = "unknown"
              /\ merged[k].path = "unknown"
              /\ merged[k].original_dimensions = << 0, 0 >>

\* C16: merge drops exactly the raw results that are errored or whose text
\* fails to parse as JSON (missing and empty text included); every other raw
\* result yields exactly one merged item, in the order of the raw results.
C16_DropsExactlyUnparsed ==
    MergeDone =>
        LET parsed == SelectSeq(batch_results, ParsesAsJson)
        IN  /\ merge_outcome = "returned"
            /\ Len(merged) = Len(parsed)
            /\ \A k \in 1..Len(merged) :
                  merged[k].custom_id = parsed[k].custom_id

\* C17: whatever the outcome type and the text of each raw result (malformed,
\* empty, or valid JSON that is an object, array, number, string or null),
\* merge raises nothing, and the items that reconcile are merged as if the
\* others were absent.
C17_MergeNeverRaises ==
    MergeDone =>
        /\ merge_outcome = "returned"
        /\ merged =
              MergeResults(SelectSeq(batch_results, ParsesAsObject),
                           rep_metadata).merged

\* C18: every item of merge's output holds all required critique keys (the
\* four sub-scores, overall_score, the notes, summary, strengths and
\* improvements), so statistics over the merged list never fail on a
\* missing key.
C18_MergedItemsComplete ==
    /\ \A k \in 1..Len(merged) :
          (CritiqueKeys \ {"description"}) \subseteq DOMAIN merged[k]
    /\ stats_outcome # "KeyError"

\* the positions of merged whose overall_score, 0 when absent, reaches m
KeptPositions(m) ==
    SelectSeq([i \in 1..Len(merged) |-> i],
              LAMBDA i : (IF "overall_score" \in DOMAIN merged[i]
                          THEN merged[i].overall_score ELSE 0) >= m)

\* C19: an item is kept iff its overall_score, taken as 0 when absent, is at
\* least min_score; kept items keep their relative order; and what is kept
\* with a threshold b is kept with every threshold a <= b.
C19_FilterMonotonic ==
    (rep_pc \in {"filtered", "stats"}) =>
        LET kept == KeptPositions(min_score)
        IN  /\ Len(filtered) = Len(kept)
            /\ \A k \in 1..Len(filtered) : filtered[k] = merged[kept[k]]
            /\ \A a \in MinScores :
                  a <= min_score =>
                      LET lower == FilterByScore(merged, a)
                      IN  /\ Len(filtered) <= Len(lower)
                          /\ \A k \in 1..Len(filtered) :
                                \E i \in 1..Len(lower) : lower[i] = filtered[k]
                          /\ \A i \in 1..Len(kept) :
                                \E l \in 1..Len(KeptPositions(a)) :
                                    KeptPositions(a)[l] = kept[i]

\* the filter with threshold 7.0 has kept an item that scores exactly 7.0 and
\* dropped one that has no overall_score
C19_Witness ==
    /\ rep_pc = "filtered"
    /\ min_score = 70
    /\ Len(merged) = 2
    /\ "overall_score" \notin DOMAIN merged[1]
    /\ Len(filtered) = 1
    /\ filtered[1] = merged[2]
    /\ filtered[1].overall_score = 70

\* the half-open interval [lo, hi) of each tier, in tenths
TierBounds(tier) ==
    CASE tier = "excellent (9-10)" -> << 90, 100 >>
      [] tier = "great (8-9)" -> << 80, 90 >>
      [] tier = "good (7-8)" -> << 70, 80 >>
      [] tier = "average (6-7)" -> << 60, 70 >>
      [] tier = "below_average (5-6)" -> << 50, 60 >>
      [] tier = "poor (0-5)" -> << 0, 50 >>

\* C20: on [0, 10] each tier is the half-open interval [lo, hi), the top tier
\* holding 10 as well, so the tiers neither overlap nor leave a gap; every
\* result is counted in exactly one tier, and for a non-empty list the tier
\* counts sum to total_images.
C20_TiersPartition ==
    (stats_outcome = "returned" /\ filtered # << >>) =>
        /\ \A s \in 0..100 :
              LET tiers == {tier \in TierNames : InTier(tier, s)}
              IN  /\ Cardinality(tiers) = 1
                  /\ \A tier \in tiers :
                        \/ TierBounds(tier)[1] <= s /\ s < TierBounds(tier)[2]
                        \/ TierBounds(tier)[2] = 100 /\ s = 100
        /\ LET d == stats.score_distribution
           IN  /\ stats.total_images = Len(filtered)
               /\ d["excellent (9-10)"] + d["great (8-9)"] + d["good (7-8)"]
                     + d["average (6-7)"] + d["below_average (5-6)"]
                     + d["poor (0-5)"] = stats.total_images
               /\ \A i \in 1..Len(filtered) :
                     Cardinality({tier \in TierNames :
                                     InTier(tier, filtered[i].overall_score)}) = 1
               /\ \A tier \in TierNames :
                     d[tier] = Cardinality({i \in 1..Len(filtered) :
                                   InTier(tier, filtered[i].overall_score)})

\* statistics of two results that score 9.0 and 8.9: one in the top tier, one
\* in the tier below
C20_Witness ==
    /\ rep_pc = "stats"
    /\ stats_outcome = "returned"
    /\ stats.total_images = 2
    /\ {filtered[1].overall_score, filtered[2].overall_score} = {89, 90}
    /\ stats.score_distribution["excellent (9-10)"] = 1
    /\ stats.score_distribution["great (8-9)"] = 1

\* b holds the items of a, each as often as a does
IsPermutation(a, b) ==
    /\ Len(a) = Len(b)
    /\ \E p \in [1..Len(a) -> 1..Len(a)] :
          /\ \A i, j \in 1..Len(a) : i # j => p[i] # p[j]
          /\ \A i \in 1..Len(a) : a[i] = b[p[i]]

\* no item scores more than the one before it
Descending(rs) ==
    \A i \in 1..(Len(rs) - 1) : ScoreOf(rs[i]) >= ScoreOf(rs[i + 1])

C22_EmptyIsNoOp ==
    (/\ gen_pc = "done"
     /\ gen.merge_called
     /\ gen.outcome # "TypeError"
     /\ gen.results = << >>)
    => /\ gen.outcome = "returned"
       /\ gen.warned
       /\ ~gen.json_written
       /\ ~gen.md_written

\* the filter removed every merged item
C22_Witness ==
    /\ gen_pc = "done"
    /\ gen.filter_called
    /\ gen.merged # << >>
    /\ gen.results = << >>
    /\ gen.warned

\* C23: a format other than json, markdown or both makes generate_report
\* raise ValueError with nothing merged, nothing filtered, no warning and no
\* file written, whatever the lists are.
C23_InvalidFormatFirst ==
    (gen_pc = "done" /\ gen_args.format \notin {"json", "markdown", "both"})
    => /\ gen.outcome = "ValueError"
       /\ ~gen.merge_called
       /\ ~gen.filter_called
       /\ ~gen.warned
       /\ ~gen.json_written
       /\ ~gen.md_written

\* the call of the test suite: empty lists and an invalid format
C23_Witness ==
    /\ gen_pc = "done"
    /\ gen_args.format = "xml"
    /\ gen_args.batch_results = << >>
    /\ gen_args.image_metadata = << >>
    /\ gen.outcome = "ValueError"

\* the raw results merge_results makes an item of, in order
Sources(rs) == SelectSeq(rs, LAMBDA r : ParseCritique(r) # JsonNull)

\* C29: every merged item carries the correlation id of the raw result it
\* was made from and the filename, path and dimensions of the metadata
\* record with that id (or the unknown defaults).
C29_MergeKeepsIdentity ==
    (gen.merge_called /\ gen.outcome # "TypeError") =>
        LET src == Sources(gen_args.batch_results)
        IN  /\ Len(gen.merged) = Len(src)
            /\ \A i \in 1..Len(src) :
                  LET md == MetadataById(gen_args.image_metadata,
                                         src[i].custom_id)
                      item == gen.merged[i]
                  IN  /\ item.custom_id = src[i].custom_id
                      /\ item.filename = Get(md, "filename", "unknown")
                      /\ item.path = Get(md, "path", "unknown")
                      /\ item.original_dimensions =
                            Get(md, "original_dimensions", << 0, 0 >>)

\* the block types of a message content, in order
BlockTypes(content) == [k \in 1..Len(content) |-> content[k].type]

\* C27: a request built for the default provider carries the given id and,
\* under params, the given model, max_tokens 1024, the system prompt, and
\* exactly one user message whose content is an image block followed by a
\* text block; this holds of every request prepare_batch returns, for the
\* default and for a custom model.
C27_RequestShape ==
    prep_provider = "openai" =>
        \A i \in 1..Len(batch_requests) :
            LET r == batch_requests[i]
            IN  /\ r.custom_id = image_metadata[i].custom_id
                /\ "params" \in DOMAIN r
                /\ r.params.model = prep_model
                /\ r.params.max_tokens = 1024
                /\ r.params.system = PHOTO_CRITIC_SYSTEM_PROMPT
                /\ Len(r.params.messages) = 1
                /\ r.params.messages[1].role = "user"
                /\ BlockTypes(r.params.messages[1].content)
                      = << "image", "text" >>

\* C25: the progress summaries of one poll_batch call are at least 300
\* seconds apart, and the first comes at least 300 seconds after polling
\* started, whatever the poll interval.
C25_ProgressCadence ==
    \A i \in 1..Len(progress_log) :
        progress_log[i] - (IF i = 1 THEN start_time ELSE progress_log[i - 1])
            >= 300

\* a poll_batch call that has logged two summaries
C25_Witness ==
    /\ PollActive
    /\ Len(progress_log) = 2

\* C28: a loop iteration that finds the elapsed time above the timeout
\* raises the timeout error without fetching a status or returning one, also
\* when the remote batch has completed; a status is fetched only in an
\* iteration whose timeout check passed.
C28_TimeoutBeforeFetch ==
    /\ [][(/\ poll_pc = "check"
           /\ poll_pc' # "check"
           /\ poll_outcome' # "interrupted"
           /\ now' - start_time > timeout)
          => /\ poll_pc' = "done"
             /\ poll_outcome' = "timeout"
             /\ poll_result' = NoObj
             /\ status' = status]_vars
    /\ [](poll_pc = "fetch" => now - start_time <= timeout)
    /\ [][status' # status /\ poll_pc' # "done"
            => poll_pc = "fetch" /\ now - start_time <= timeout]_vars

\* the timeout error is raised although the remote batch has completed
C28_Witness ==
    /\ poll_outcome = "timeout"
    /\ remote_status = "completed"
    /\ poll_result = NoObj

\* a stage of main() raised an error that one of main()'s handlers caught
HandledError ==
    \/ cli_end \in {"discovery_error", "prepare_error", "report_error"}
    \/ construct_err # NoObj
    \/ sub_outcome \notin {"none", "returned"}
    \/ poll_outcome \in {"timeout", "failed", "fetch_error"}
    \/ res_outcome \notin {"none", "returned"}

\* full success, or one of the three early exits
EndedWell == cli_end \in {"complete", "no_images", "dry_run", "no_requests"}

\* C24, as stated: every CLI run ends with exit code 0, 1 or 130; 130
\* exactly when the user interrupts polling, 1 exactly when a stage raises
\* a handled error, 0 on full success and on the early exits.
C24_ExitCodesAsStated ==
    (mode = "cli" /\ cli_pc = "exit") =>
        /\ exit_code \in {0, 1, 130}
        /\ exit_code = 130 <=> poll_outcome = "interrupted"
        /\ exit_code = 1 <=> HandledError
        /\ exit_code = 0 <=> EndedWell

\* C24, amended: every CLI run ends with exit code 0, 1, 2 or 130; 2 exactly
\* when click rejects the command line, 130 exactly when the user interrupts
\* polling, 1 exactly when a stage raises a handled error or an exception
\* that main() does not handle ends the run (get_image_stats failing, a user
\* interrupt outside polling), 0 on full success and on the early exits.
C24_ExitCodes ==
    (mode = "cli" /\ cli_pc = "exit") =>
        /\ exit_code \in {0, 1, 2, 130}
        /\ exit_code = 2 <=> cli_end = "usage_error"
        /\ exit_code = 130 <=> poll_outcome = "interrupted"
        /\ exit_code = 1 <=> (HandledError \/ cli_end \in {"unhandled", "aborted"})
        /\ exit_code = 0 <=> EndedWell

\* a run whose polling the user interrupted
C24_Witness ==
    /\ mode = "cli"
    /\ cli_pc = "exit"
    /\ poll_outcome = "interrupted"
    /\ exit_code = 130

\* C26: a CLI run calls submit_batch at most once, and a run whose
\* construction or submission raised has ended with exit code 1 and has
\* fetched no status, retrieved no results and generated no report.
C26_SubmitOnce ==
    /\ [][(mode = "cli" /\ (sub_outcome # "none" \/ construct_err # NoObj))
            => UNCHANGED << submitVars, construct_err >>]_vars
    /\ []((/\ mode = "cli"
           /\ (sub_outcome \notin {"none", "returned"} \/ construct_err # NoObj))
          => /\ cli_pc = "exit"
             /\ exit_code = 1
             /\ poll_pc = "idle"
             /\ status = NoObj
             /\ res_outcome = "none"
             /\ written = {}
             /\ announced = {})

\* a run whose submission failed after the upload
C26_Witness ==
    /\ mode = "cli"
    /\ cli_pc = "exit"
    /\ uploaded
    /\ sub_outcome \notin {"none", "returned"}

\* C30: every report file the completion message names as saved was written
\* by generate_report in this run.
C30_AnnouncedWasWritten == announced \subseteq written

====
